---- MODULE Spec2Model ----
(***************************************************************************)
(* BlueGauge: device-state reconciliation and watcher lifecycle.           *)
(*                                                                         *)
(* Spec      the winit application (src/src/main.rs) with the snapshot     *)
(*           builder and the reconciliation of src/src/bluetooth.rs; the   *)
(*           notification work of a pass runs on its own spawned thread.   *)
(* SpecHyst  the same engine driven by the fixed battery readings          *)
(*           50, 10, 8, 12, 5 of one device.                               *)
(* SpecWatch the per-device watcher supervisor of                          *)
(*           src/src/bluetooth/listen.rs (ThreadManager, THREAD_STATE).    *)
(* SpecPass  one reconciliation pass of Spec from every snapshot and       *)
(*           every setting of the notification options.                    *)
(* SpecBuild one get_bluetooth_info query over classic, low-energy and     *)
(*           dual-mode devices.                                            *)
(* SpecTray  the polling tray of src/src/systray.rs (update_tray).         *)
(* SpecToast Spec with notify() calls that may fail.                       *)
(* SpecEvents the OS event subscriptions of                                *)
(*           src/src/bluetooth/_watch.rs (WatchBluetoothDeviceInfo).       *)
(* SpecTimer the timer threads of listen.rs and main.rs.                   *)
(* SpecLocks update_tray run by two tasks over the Mutexes of systray.rs.  *)
(* SpecDeviceWatcher the BluetoothWatcher of src/tests/watch.rs.           *)
(* SpecOrder the engine of SpecHyst with readings 5 and 20 in any order.   *)
(* SpecPoll  the watcher thread of a classic device, poll by poll.         *)
(* SpecAdvance the timer task of systray.rs and the ForwardUpdate handler  *)
(*           over updated_in_advance.                                      *)
(*                                                                         *)
(* A notification is what notify() is called with; except in SpecToast     *)
(* the toast is shown, so notify() returns.                                *)
(***************************************************************************)
EXTENDS Bags, FiniteSets, Integers, Sequences, TLC

VARIABLES
    config,                \* main.rs App.config (notify options, read-only here)
    bluetooth_info,        \* main.rs App.bluetooth_info: the canonical snapshot
    notified_low_battery,  \* main.rs App.notified_low_battery
    force_update,          \* config.force_update (AtomicBool)
    threads,               \* notification threads spawned and not yet run, in spawn order
    step,                  \* the operation that made the last step
    ret,                   \* outcome of the last UpdateTray handler
    enumr,                 \* what the last UpdateTray handler enumerated
    job,                   \* the closure the last notification thread ran
    emitted,               \* bag of the notifications that thread sent
    alerts,                \* per address: what the notification threads did last
    script,                \* SpecHyst: number of readings consumed
    log,                   \* SpecHyst: batteries of the LowBattery notifications, in order
    fifo,                  \* SpecHyst: the threads so far ran in the order they were spawned
    lock,                  \* listen.rs THREAD_STATE's mutex: "free" or "caller"
    handle,                \* ThreadManager.handle: 0 (None) or the thread it joins
    exit_flag,             \* ThreadManager.exit_flag: 0 (None) or the thread whose flag it is
    current_bluetooth_info,\* ThreadManager.current_bluetooth_info: None or a device
    caller,                \* the thread calling into the supervisor, and the call it is in
    th,                    \* the watcher threads: position, exit flag, current_device_info
    spawned,               \* number of watcher threads spawned so far
    wret,                  \* the last supervisor call that returned: op, target, result
    channel,               \* the event loop the watchers send to: "open" or "closed"
    world,                 \* SpecBuild: the devices and property-store reads of one query
    built,                 \* SpecBuild: what get_bluetooth_info returned for them
    tray_config,           \* systray.rs: the Config behind `config`
    blue_info,             \* systray.rs: the snapshot behind `blue_info`
    low_battery_devices,   \* systray.rs: HashMap<String, bool>, per key "none" if absent
    update_menu_event,     \* systray.rs: the flag behind `update_menu_event`
    pass,                  \* SpecTray: what the last update_tray classified and sent
    poisoned,              \* SpecToast: the mutex of notified_low_battery is poisoned
    wpc,                   \* SpecEvents: where WatchBluetoothDeviceInfo::watch is
    subs,                  \* SpecEvents: the event handlers registered with the OS
    started,               \* SpecEvents: the two DeviceWatchers are started
    queue,                 \* SpecEvents: the WatchEvents in the bounded channel
    poll,                  \* SpecEvents: the battery polling task is running
    cb,                    \* SpecEvents: what the last OS event handler did
    known,                 \* SpecEvents: the addresses in self.btc and self.ble
    timer,                 \* SpecTimer: the timer thread's loop and the event it sent last
    mutex,                 \* SpecLocks: per Mutex of loop_systray, who holds it
    tasks,                 \* SpecLocks: the two tasks that run update_tray
    dw,                    \* SpecDeviceWatcher: the DeviceWatcher and the call made on it
    last_poll,             \* SpecPoll: what the last poll of a classic watcher read and did
    advance                \* SpecAdvance: updated_in_advance, its Mutex and the timer task

mainVars == <<config, bluetooth_info, notified_low_battery, force_update,
              threads, step, ret, enumr, job, emitted, alerts, script, log, fifo>>

watchVars == <<lock, handle, exit_flag, current_bluetooth_info, caller, th,
               spawned, wret, channel>>

buildVars == <<world, built>>

trayVars == <<tray_config, blue_info, low_battery_devices, update_menu_event, pass>>

toastVars == <<poisoned>>

eventVars == <<wpc, subs, started, queue, poll, cb, known>>

timerVars == <<timer>>

lockVars == <<mutex, tasks>>

testVars == <<dw, last_poll, advance>>

vars == <<mainVars, watchVars, buildVars, trayVars, toastVars, eventVars, timerVars,
          lockVars, testVars>>

\* what the actions of one specification leave alone
notMain == <<timerVars, lockVars, testVars, watchVars, buildVars, trayVars, toastVars, eventVars>>
notWatch == <<timerVars, lockVars, testVars, mainVars, buildVars, trayVars, toastVars, eventVars>>
notBuild == <<timerVars, lockVars, testVars, mainVars, watchVars, trayVars, toastVars, eventVars>>
notTray == <<timerVars, lockVars, testVars, mainVars, watchVars, buildVars, toastVars, eventVars>>
notEvents == <<mainVars, watchVars, buildVars, trayVars, toastVars, timerVars, lockVars, testVars>>

(***************************************************************************)
(* Bounds                                                                   *)
(***************************************************************************)
\* notification threads that may be pending at the same time
MaxThreads == 1
\* the same for the scripted readings of SpecHyst
MaxRacing == 2
\* watcher threads spawned in one behaviour of SpecWatch
MaxSpawns == 3

\* tokio::sync::mpsc::channel(10) of WatchBluetoothDeviceInfo::new
ChannelCapacity == 10

(***************************************************************************)
(* Data model (bluetooth.rs)                                               *)
(***************************************************************************)
\* BluetoothInfo { name, battery, status, id }
BluetoothInfo(id, name, battery, status) ==
    [id |-> id, name |-> name, battery |-> battery, status |-> status]

\* default of notify_options.low_battery
LowBatteryDefault == 15

\* the battery readings of the general specification: below and exactly at
\* the default threshold
Batteries == {10, 15}

Ids(infos) == {i.id : i \in infos}

\* the notify options (config.rs NotifyOptions): the default threshold, and
\* the four switches all on or all off
NotifyOptions(disconnection, reconnection, added, removed) ==
    [low_battery |-> LowBatteryDefault, disconnection |-> disconnection,
     reconnection |-> reconnection, added |-> added, removed |-> removed]

Configs ==
    {NotifyOptions(TRUE, TRUE, TRUE, TRUE), NotifyOptions(FALSE, FALSE, FALSE, FALSE)}

\* a notification: title kind and the device record it names
Notification(kind, dev) == [kind |-> kind, dev |-> dev]

One(kind, dev) == SetToBag({Notification(kind, dev)})

(***************************************************************************)
(* Snapshot builder (bluetooth.rs get_bluetooth_info and below)            *)
(***************************************************************************)
\* get_btc_info's retry loop: tries[i] is the outcome of the i-th call of
\* get_pnp_btc_devices_info, [ok, info] with info the (address -> battery)
\* table
max_retries == 2

RECURSIVE pnp_retry(_, _)
pnp_retry(tries, attempts) ==
    LET r == tries[attempts + 1] IN
    IF r.ok THEN r
    ELSE IF attempts + 1 >= max_retries THEN [ok |-> FALSE, info |-> <<>>]
    ELSE pnp_retry(tries, attempts + 1)

\* process_btc_device with the battery of whatever entry the table holds when
\* none is keyed by the device's address
process_btc_device_any_entry(btc_device, pnp) ==
    IF ~btc_device.ok \/ DOMAIN pnp = {} THEN {}
    ELSE LET key == IF btc_device.id \in DOMAIN pnp THEN btc_device.id
                    ELSE CHOOSE k \in DOMAIN pnp : TRUE
         IN  {BluetoothInfo(btc_device.id, btc_device.name, pnp[key],
                            btc_device.status)}

\* process_btc_device: name and connection state are read from the device (a
\* failed read, ok = FALSE, is an error), battery by exact address match in
\* the pnp table (no entry is an error); an error drops the device
process_btc_device(btc_device, pnp) ==
    IF ~btc_device.ok THEN {}
    ELSE IF btc_device.id \in DOMAIN pnp
    THEN {BluetoothInfo(btc_device.id, btc_device.name, pnp[btc_device.id],
                        btc_device.status)}
    ELSE {}

get_btc_info(btc_devices, tries) ==
    LET pnp == pnp_retry(tries, 0) IN
    IF ~pnp.ok THEN [ok |-> FALSE, info |-> {}]
    ELSE [ok |-> TRUE,
          info |-> UNION {process_btc_device(d, pnp.info) : d \in btc_devices}]

\* process_ble_device: name, battery and status are read from the device; a
\* failed read (ok = FALSE) drops the device
process_ble_device(ble_device) ==
    IF ~ble_device.ok THEN {}
    ELSE {BluetoothInfo(ble_device.id, ble_device.name, ble_device.battery,
                        ble_device.status)}

\* get_ble_info collecting into a Result: the first failed device is the
\* error of the batch
get_ble_info_all_or_nothing(ble_devices) ==
    IF \E d \in ble_devices : ~d.ok THEN [ok |-> FALSE, info |-> {}]
    ELSE [ok |-> TRUE, info |-> UNION {process_ble_device(d) : d \in ble_devices}]

get_ble_info(ble_devices) ==
    [ok |-> TRUE, info |-> UNION {process_ble_device(d) : d \in ble_devices}]

OrEmpty(r) == IF r.ok THEN r ELSE [ok |-> TRUE, info |-> {}]

\* the match on both results giving the records only when both are Ok
match_results_all_or_nothing(btc_result, ble_result) ==
    IF btc_result.ok /\ ble_result.ok
    THEN [ok |-> TRUE, info |-> btc_result.info \cup ble_result.info]
    ELSE [ok |-> FALSE, info |-> {}]

\* `match (btc_result, ble_result)` of get_bluetooth_info
match_results(btc_result, ble_result) ==
    IF btc_result.ok /\ ble_result.ok
    THEN [ok |-> TRUE, info |-> btc_result.info \cup ble_result.info]
    ELSE IF btc_result.ok THEN btc_result
    ELSE IF ble_result.ok THEN ble_result
    ELSE [ok |-> FALSE, info |-> {}]

get_bluetooth_info(btc_devices, ble_devices, tries) ==
    IF btc_devices = {} /\ ble_devices = {} THEN [ok |-> FALSE, info |-> {}]
    ELSE IF btc_devices = {} THEN OrEmpty(get_ble_info(ble_devices))
    ELSE IF ble_devices = {} THEN OrEmpty(get_btc_info(btc_devices, tries))
    ELSE match_results(get_btc_info(btc_devices, tries), get_ble_info(ble_devices))

(***************************************************************************)
(* Reconciliation (bluetooth.rs compare_bt_info_to_send_notifications)     *)
(***************************************************************************)
\* the loop body with the low-battery match sending on every low reading,
\* whatever the notified set holds
PairBodyNoHysteresis(cfg, change_old, change_new, old, new, st) ==
    IF old.id = new.id
    THEN LET is_low  == new.battery < cfg.low_battery
             st1 == IF new.battery # old.battery /\ is_low
                    THEN [notified |-> st.notified \cup {new.id},
                          out |-> st.out (+) One("LowBattery", new)]
                    ELSE IF new.battery # old.battery
                    THEN [notified |-> st.notified \ {new.id}, out |-> st.out]
                    ELSE st
             disc == IF new.status # old.status /\ cfg.disconnection /\ ~new.status
                     THEN One("Disconnected", new) ELSE EmptyBag
             reco == IF new.status # old.status /\ cfg.reconnection /\ new.status
                     THEN One("Reconnected", new) ELSE EmptyBag
         IN  [notified |-> st1.notified, out |-> st1.out (+) disc (+) reco]
    ELSE LET add == IF cfg.added /\ change_new \ change_old # {}
                    THEN One("Added", new) ELSE EmptyBag
             rem == IF cfg.removed /\ change_old \ change_new # {}
                    THEN One("Removed", old) ELSE EmptyBag
         IN  [notified |-> st.notified, out |-> st.out (+) add (+) rem]

\* the loop body with a reading equal to the threshold taken as low
PairBodyLowAtThreshold(cfg, change_old, change_new, old, new, st) ==
    IF old.id = new.id
    THEN LET is_low  == new.battery <= cfg.low_battery
             was_low == new.id \in st.notified
             st1 == IF new.battery # old.battery
                    THEN IF ~was_low /\ is_low
                         THEN [notified |-> st.notified \cup {new.id},
                               out |-> st.out (+) One("LowBattery", new)]
                         ELSE IF was_low /\ ~is_low
                         THEN [notified |-> st.notified \ {new.id},
                               out |-> st.out]
                         ELSE st
                    ELSE st
             disc == IF new.status # old.status /\ cfg.disconnection /\ ~new.status
                     THEN One("Disconnected", new) ELSE EmptyBag
             reco == IF new.status # old.status /\ cfg.reconnection /\ new.status
                     THEN One("Reconnected", new) ELSE EmptyBag
         IN  [notified |-> st1.notified, out |-> st1.out (+) disc (+) reco]
    ELSE LET added_devices   == change_new \ change_old
             removed_devices == change_old \ change_new
             add == IF cfg.added /\ added_devices # {}
                    THEN One("Added", new) ELSE EmptyBag
             rem == IF cfg.removed /\ removed_devices # {}
                    THEN One("Removed", old) ELSE EmptyBag
         IN  [notified |-> st.notified, out |-> st.out (+) add (+) rem]

\* the loop body sending the connection notifications whatever the
\* disconnection and reconnection options hold
PairBodyUngatedConnection(cfg, change_old, change_new, old, new, st) ==
    IF old.id = new.id
    THEN LET is_low  == new.battery < cfg.low_battery
             was_low == new.id \in st.notified
             st1 == IF new.battery # old.battery
                    THEN IF ~was_low /\ is_low
                         THEN [notified |-> st.notified \cup {new.id},
                               out |-> st.out (+) One("LowBattery", new)]
                         ELSE IF was_low /\ ~is_low
                         THEN [notified |-> st.notified \ {new.id},
                               out |-> st.out]
                         ELSE st
                    ELSE st
             disc == IF new.status # old.status /\ ~new.status
                     THEN One("Disconnected", new) ELSE EmptyBag
             reco == IF new.status # old.status /\ new.status
                     THEN One("Reconnected", new) ELSE EmptyBag
         IN  [notified |-> st1.notified, out |-> st1.out (+) disc (+) reco]
    ELSE LET added_devices   == change_new \ change_old
             removed_devices == change_old \ change_new
             add == IF cfg.added /\ added_devices # {}
                    THEN One("Added", new) ELSE EmptyBag
             rem == IF cfg.removed /\ removed_devices # {}
                    THEN One("Removed", old) ELSE EmptyBag
         IN  [notified |-> st.notified, out |-> st.out (+) add (+) rem]

\* PairBody with the connection state looked at only when the battery did
\* not change (`else if new.status != old.status`)
PairBodyBatteryFirst(cfg, change_old, change_new, old, new, st) ==
    IF old.id = new.id
    THEN LET is_low  == new.battery < cfg.low_battery
             was_low == new.id \in st.notified
             st1 == IF new.battery # old.battery
                    THEN IF ~was_low /\ is_low
                         THEN [notified |-> st.notified \cup {new.id},
                               out |-> st.out (+) One("LowBattery", new)]
                         ELSE IF was_low /\ ~is_low
                         THEN [notified |-> st.notified \ {new.id},
                               out |-> st.out]
                         ELSE st
                    ELSE st
             moved == new.battery = old.battery /\ new.status # old.status
             disc == IF moved /\ cfg.disconnection /\ ~new.status
                     THEN One("Disconnected", new) ELSE EmptyBag
             reco == IF moved /\ cfg.reconnection /\ new.status
                     THEN One("Reconnected", new) ELSE EmptyBag
         IN  [notified |-> st1.notified, out |-> st1.out (+) disc (+) reco]
    ELSE LET added_devices   == change_new \ change_old
             removed_devices == change_old \ change_new
             add == IF cfg.added /\ added_devices # {}
                    THEN One("Added", new) ELSE EmptyBag
             rem == IF cfg.removed /\ removed_devices # {}
                    THEN One("Removed", old) ELSE EmptyBag
         IN  [notified |-> st.notified, out |-> st.out (+) add (+) rem]

\* the body of the nested loop for one (old, new) pair; st carries the
\* locked notified set and the notifications sent so far
PairBody(cfg, change_old, change_new, old, new, st) ==
    IF old.id = new.id
    THEN LET is_low  == new.battery < cfg.low_battery
             was_low == new.id \in st.notified
             st1 == IF new.battery # old.battery
                    THEN IF ~was_low /\ is_low
                         THEN [notified |-> st.notified \cup {new.id},
                               out |-> st.out (+) One("LowBattery", new)]
                         ELSE IF was_low /\ ~is_low
                         THEN [notified |-> st.notified \ {new.id},
                               out |-> st.out]
                         ELSE st
                    ELSE st
             disc == IF new.status # old.status /\ cfg.disconnection /\ ~new.status
                     THEN One("Disconnected", new) ELSE EmptyBag
             reco == IF new.status # old.status /\ cfg.reconnection /\ new.status
                     THEN One("Reconnected", new) ELSE EmptyBag
         IN  [notified |-> st1.notified, out |-> st1.out (+) disc (+) reco]
    ELSE LET added_devices   == change_new \ change_old
             removed_devices == change_old \ change_new
             add == IF cfg.added /\ added_devices # {}
                    THEN One("Added", new) ELSE EmptyBag
             rem == IF cfg.removed /\ removed_devices # {}
                    THEN One("Removed", old) ELSE EmptyBag
         IN  [notified |-> st.notified, out |-> st.out (+) add (+) rem]

\* for old in &change_old { for new in &change_new { ... } }
RECURSIVE NestedLoop(_, _, _, _, _)
NestedLoop(cfg, change_old, change_new, pairs, st) ==
    IF pairs = {} THEN st
    ELSE LET p == CHOOSE q \in pairs : TRUE IN
         NestedLoop(cfg, change_old, change_new, pairs \ {p},
                    PairBody(cfg, change_old, change_new, p[1], p[2], st))

\* the closure handed to std::thread::spawn, run with the notified set locked
NotifyThreadBody(j, notified) ==
    NestedLoop(j.cfg, j.change_old, j.change_new,
               j.change_old \X j.change_new,
               [notified |-> notified, out |-> EmptyBag])

\* compare_bt_info_to_send_notifications without the early return of equal
\* difference sets
compare_without_short_circuit(cfg, old_bt_info, new_bt_info) ==
    [some |-> TRUE,
     spawn |-> <<[cfg |-> cfg, change_old |-> old_bt_info \ new_bt_info,
                  change_new |-> new_bt_info \ old_bt_info]>>,
     old_bt_info |-> new_bt_info]

\* compare_bt_info_to_send_notifications without the final store of
\* new_bt_info
compare_without_store(cfg, old_bt_info, new_bt_info) ==
    LET change_old_bt_info == old_bt_info \ new_bt_info
        change_new_bt_info == new_bt_info \ old_bt_info
    IN  IF change_old_bt_info = change_new_bt_info
        THEN [some |-> FALSE, spawn |-> <<>>, old_bt_info |-> old_bt_info]
        ELSE [some |-> TRUE,
              spawn |-> <<[cfg |-> cfg, change_old |-> change_old_bt_info,
                           change_new |-> change_new_bt_info]>>,
              old_bt_info |-> old_bt_info]

\* compare_bt_info_to_send_notifications updating the canonical snapshot in
\* place: the records of new_bt_info are put in, records of addresses that
\* are not in new_bt_info stay
compare_updating_in_place(cfg, old_bt_info, new_bt_info) ==
    LET change_old_bt_info == old_bt_info \ new_bt_info
        change_new_bt_info == new_bt_info \ old_bt_info
    IN  IF change_old_bt_info = change_new_bt_info
        THEN [some |-> FALSE, spawn |-> <<>>, old_bt_info |-> old_bt_info]
        ELSE [some |-> TRUE,
              spawn |-> <<[cfg |-> cfg, change_old |-> change_old_bt_info,
                           change_new |-> change_new_bt_info]>>,
              old_bt_info |-> {o \in old_bt_info : o.id \notin Ids(new_bt_info)}
                                  \cup new_bt_info]

\* the part of compare_bt_info_to_send_notifications that runs on the
\* caller: None when the two difference sets are equal, else the closure to
\* spawn; the caller then stores new_bt_info as the canonical snapshot
compare_bt_info_to_send_notifications(cfg, old_bt_info, new_bt_info) ==
    LET change_old_bt_info == old_bt_info \ new_bt_info
        change_new_bt_info == new_bt_info \ old_bt_info
    IN  IF change_old_bt_info = change_new_bt_info
        THEN [some |-> FALSE, spawn |-> <<>>, old_bt_info |-> old_bt_info]
        ELSE [some |-> TRUE,
              spawn |-> <<[cfg |-> cfg, change_old |-> change_old_bt_info,
                           change_new |-> change_new_bt_info]>>,
              old_bt_info |-> new_bt_info]

(***************************************************************************)
(* The environment an UpdateTray pass may meet                             *)
(***************************************************************************)
\* device A is a classic device (battery from the pnp table), device B a
\* low-energy device (battery read from the device)
BtcDevices ==
    {[id |-> "A", name |-> "a", status |-> s, ok |-> o] : s, o \in BOOLEAN}
BleDevices == {[id |-> "B", name |-> "b", battery |-> LowBatteryDefault,
                status |-> TRUE, ok |-> o] : o \in BOOLEAN}

PnpTables == {<<>>} \cup {("A" :> b) : b \in Batteries}

\* the first `fails` calls of get_pnp_btc_devices_info fail, the others
\* return `table`
PnpTries(fails, table) ==
    [i \in 1..max_retries |->
        IF i <= fails THEN [ok |-> FALSE, info |-> <<>>]
                      ELSE [ok |-> TRUE, info |-> table]]

Worlds ==
    [btc : {{}} \cup {{d} : d \in BtcDevices},
     ble : {{}} \cup {{d} : d \in BleDevices},
     tries : {PnpTries(f, t) : f \in 0..max_retries, t \in PnpTables}]

\* what one enumeration can come to: the result of get_bluetooth_info and
\* whether the classic collection (when made) succeeded
Enumerate(w) ==
    [found |-> get_bluetooth_info(w.btc, w.ble, w.tries),
     btc_ok |-> w.btc = {} \/ get_btc_info(w.btc, w.tries).ok]

Enumerations == {Enumerate(w) : w \in Worlds}

\* the snapshots get_bluetooth_info can return
Snapshots == {e.found.info : e \in {x \in Enumerations : x.found.ok}}

NoJob == [cfg |-> <<>>, change_old |-> {}, change_new |-> {}]
NoEnum == [find_ok |-> TRUE, btc_ok |-> TRUE, info_ok |-> TRUE,
           new_bt_info |-> {}]

Addresses == {"A", "B"}

\* history of the notification threads, per address: "alerted" after a
\* LowBattery notification, "recovered" once a thread has, after that,
\* handled a battery change of the address to a value at or above the
\* threshold
Recovers(j, id) ==
    \E old \in j.change_old, new \in j.change_new :
        /\ old.id = id /\ new.id = id
        /\ new.battery # old.battery
        /\ new.battery >= j.cfg.low_battery

LowBatteryFor(out, id) ==
    {n \in BagToSet(out) : n.kind = "LowBattery" /\ n.dev.id = id}

AlertsAfter(j, out, before) ==
    [id \in Addresses |->
        IF LowBatteryFor(out, id) # {} THEN "alerted"
        ELSE IF Recovers(j, id) /\ before[id] = "alerted" THEN "recovered"
        ELSE before[id]]

(***************************************************************************)
(* Watcher supervisor state (listen.rs)                                    *)
(***************************************************************************)
None == [none |-> TRUE]

\* info.rs BluetoothInfo { name, battery, status, address, type }
WatchedInfo(name, battery, status, address, type) ==
    [name |-> name, battery |-> battery, status |-> status,
     address |-> address, type |-> type]

\* a watcher thread: where it is, its exit flag, its current_device_info,
\* and whether a send of it has met the closed channel
Unborn == [pc |-> "unborn", exit_flag |-> FALSE, dev |-> None, closed |-> FALSE]

\* a returned call: listen_bluetooth_device_info(target, create = true) is
\* "create", create = false and stop_bluetooth_monitoring are "stop"
Returned(op, target, res) ==
    [op |-> op, target |-> target, res |-> res, tick |-> 0]

Idle == [pc |-> "idle", op |-> "none", target |-> None, t |-> 0]

\* ThreadManager::new(), no call in progress, no thread spawned
WatchIdle ==
    /\ lock = "free"
    /\ handle = 0 /\ exit_flag = 0 /\ current_bluetooth_info = None
    /\ caller = Idle
    /\ th = [t \in 1..MaxSpawns |-> Unborn]
    /\ spawned = 0
    /\ wret = Returned("none", None, "none")
    /\ channel = "open"

\* no query made
NotBuilt == [done |-> FALSE, ok |-> FALSE, info |-> {}]

BuildIdle == world = <<>> /\ built = NotBuilt

\* the keys the low-battery map of the tray is read and written with: ids,
\* and the names the startup notification inserts
LowKeys == {"A", "B", "a", "a2", "b"}

\* no update_tray has run
NoPass ==
    [ran |-> FALSE, prev |-> {}, cur |-> {},
     added |-> {}, removed |-> {}, updated_cur |-> {}, updated_rev |-> {},
     sent |-> {}, refresh |-> "none"]

\* no notification thread has panicked with the notified set locked
ToastIdle == poisoned = FALSE

\* what an OS event handler did in its last call; pnp is what its retry loop
\* of get_pnp_devices_info came to ("none" when it did not run)
Handled(handler, slept, attempts, push, pnp) ==
    [handler |-> handler, slept |-> slept, attempts |-> attempts, push |-> push,
     pnp |-> pnp]

NoHandler == Handled("none", FALSE, 0, "none", "none")

\* no WatchBluetoothDeviceInfo::watch has been called
EventsIdle ==
    /\ wpc = "idle" /\ subs = {} /\ started = FALSE
    /\ queue = <<>> /\ poll = FALSE /\ cb = NoHandler
    /\ known = [btc |-> {}, ble |-> {}]

\* the event the timer thread sent last: whether it carries a forced mark
\* and the mark, the ticks waited for it, the interval read for it and
\* whether the wait was left by the break
TimerEvent(marked, forced, waited, interval, preempted) ==
    [sent |-> TRUE, marked |-> marked, forced |-> forced, waited |-> waited,
     interval |-> interval, preempted |-> preempted]

NoTimerEvent ==
    [sent |-> FALSE, marked |-> FALSE, forced |-> FALSE, waited |-> 0,
     interval |-> 0, preempted |-> FALSE]

\* the timer thread has not been spawned
NoTimer ==
    [loop |-> "none", pc |-> "top", update_interval |-> 0, i |-> 0,
     need_force_update |-> FALSE, preempted |-> FALSE, overslept |-> 0,
     rounds |-> 0, event |-> NoTimerEvent]

TimerIdle == timer = NoTimer

\* the Mutexes loop_systray creates, in the order update_tray tries them;
\* the last is tried only when a battery changed
Mutexes ==
    <<"config", "tooltip", "menu_devices", "blue_info", "update_menu_event",
      "low_battery_devices">>

\* the two tasks that call update_tray: the timer task and the task spawned
\* for TrayEvent::ForwardUpdate
Tasks == {"timer", "forward"}

\* a task outside update_tray
NoTask ==
    [pc |-> "idle", current |-> {}, k |-> 0, result |-> "none", sent |-> {},
     passes |-> 0]

\* no Mutex is held and no update_tray is running
LocksIdle ==
    /\ mutex = [m \in {Mutexes[i] : i \in 1..Len(Mutexes)} |-> "free"]
    /\ tasks = [t \in Tasks |-> NoTask]

\* the DeviceWatcher of the test before BluetoothWatcher::new: its status,
\* the call running on it (with the status that call read), the last call
\* that returned, the commands issued so far, and whether a command was
\* issued in a status that does not allow it
NoWatcher ==
    [status |-> "None", pc |-> "idle", seen |-> "None",
     last |-> [op |-> "none", seen |-> "None", issued |-> FALSE, ret |-> "none"],
     commands |-> 0, misuse |-> FALSE, dropped |-> FALSE]

\* no poll made
NoPoll == [t |-> 0, obs |-> None, pushed |-> FALSE]

\* updated_in_advance = false, its Mutex free, no wake-up of the timer task
\* and no ForwardUpdate so far
NoAdvance ==
    [flag |-> FALSE, holder |-> "none", last |-> "none",
     wakeups |-> 0, forced |-> 0, skipped |-> 0]

TestIdle == dw = NoWatcher /\ last_poll = NoPoll /\ advance = NoAdvance

\* the tray before loop_systray has read its ini file
TrayIdle ==
    /\ tray_config = [notify_low_battery |-> 0,
                      notify_reconnection |-> FALSE, notify_disconnection |-> FALSE,
                      notify_added_devices |-> FALSE, notify_remove_devices |-> FALSE]
    /\ blue_info = {}
    /\ low_battery_devices = [k \in LowKeys |-> "none"]
    /\ update_menu_event = FALSE
    /\ pass = NoPass

(***************************************************************************)
(* Actions (main.rs)                                                       *)
(***************************************************************************)
\* MenuEvent "force_update"
ForceUpdateMenu ==
    /\ ~force_update
    /\ force_update' = TRUE
    /\ step' = "menu"
    /\ ret' = "none" /\ enumr' = NoEnum /\ job' = NoJob /\ emitted' = EmptyBag
    /\ UNCHANGED <<config, bluetooth_info, notified_low_battery, threads,
                   alerts, script, log, fifo>>
    /\ UNCHANGED notMain

\* UserEvent::UpdateTray with find_bluetooth_devices failing
UpdateTrayFindErr ==
    /\ step' = "UpdateTray"
    /\ ret' = "find_err"
    /\ enumr' = [find_ok |-> FALSE, btc_ok |-> TRUE, info_ok |-> FALSE,
                 new_bt_info |-> {}]
    /\ job' = NoJob /\ emitted' = EmptyBag
    /\ UNCHANGED <<config, bluetooth_info, notified_low_battery, force_update,
                   threads, alerts>>

\* the UpdateTray handler returning on an unchanged snapshot whatever the
\* force flag holds
UpdateTrayFoundIgnoringForce(e, max_pending) ==
    LET found == e.found
        cmp == compare_bt_info_to_send_notifications(
                   config, bluetooth_info, found.info)
    IN  /\ step' = "UpdateTray"
        /\ enumr' = [find_ok |-> TRUE, btc_ok |-> e.btc_ok,
                     info_ok |-> found.ok, new_bt_info |-> found.info]
        /\ job' = NoJob /\ emitted' = EmptyBag
        /\ IF ~found.ok
           THEN /\ ret' = "info_err"
                /\ UNCHANGED <<bluetooth_info, force_update, threads>>
           ELSE IF cmp.some
           THEN /\ Len(threads) < max_pending
                /\ threads' = threads \o cmp.spawn
                /\ bluetooth_info' = cmp.old_bt_info
                /\ ret' = "updated"
                /\ UNCHANGED force_update
           ELSE /\ force_update' = FALSE
                /\ ret' = "no_update"
                /\ bluetooth_info' = cmp.old_bt_info
                /\ UNCHANGED threads
        /\ UNCHANGED <<config, notified_low_battery, alerts>>

\* UserEvent::UpdateTray with the devices find_bluetooth_devices returned;
\* ret is "updated" or "forced" when the handler goes on to refresh the tray
\* menu, tooltip and icon, "no_update" when it returns before
UpdateTrayFound(e, max_pending) ==
    LET found == e.found
        cmp == compare_bt_info_to_send_notifications(
                   config, bluetooth_info, found.info)
    IN  /\ step' = "UpdateTray"
        /\ enumr' = [find_ok |-> TRUE, btc_ok |-> e.btc_ok,
                     info_ok |-> found.ok, new_bt_info |-> found.info]
        /\ job' = NoJob /\ emitted' = EmptyBag
        /\ IF ~found.ok
           THEN /\ ret' = "info_err"
                /\ UNCHANGED <<bluetooth_info, force_update, threads>>
           ELSE IF cmp.some
           THEN /\ Len(threads) < max_pending
                /\ threads' = threads \o cmp.spawn
                /\ bluetooth_info' = cmp.old_bt_info
                /\ ret' = "updated"
                /\ UNCHANGED force_update
           ELSE /\ force_update' = FALSE
                /\ ret' = IF force_update THEN "forced" ELSE "no_update"
                /\ bluetooth_info' = cmp.old_bt_info
                /\ UNCHANGED threads
        /\ UNCHANGED <<config, notified_low_battery, alerts>>

UpdateTray ==
    /\ \/ UpdateTrayFindErr
       \/ \E e \in Enumerations : UpdateTrayFound(e, MaxThreads)
    /\ UNCHANGED <<script, log, fifo>>
    /\ UNCHANGED notMain

\* one spawned notification thread takes the notified set's lock and runs
Remove(seq, i) == SubSeq(seq, 1, i - 1) \o SubSeq(seq, i + 1, Len(seq))

RunThread(i) ==
    LET r == NotifyThreadBody(threads[i], notified_low_battery) IN
    /\ notified_low_battery' = r.notified
    /\ emitted' = r.out
    /\ alerts' = AlertsAfter(threads[i], r.out, alerts)
    /\ job' = threads[i]
    /\ threads' = Remove(threads, i)
    /\ step' = "thread"
    /\ ret' = "none" /\ enumr' = NoEnum
    /\ UNCHANGED <<config, bluetooth_info, force_update>>

NotifyThread ==
    /\ \E i \in 1..Len(threads) : RunThread(i)
    /\ UNCHANGED <<script, log, fifo>>
    /\ UNCHANGED notMain

Init ==
    /\ WatchIdle /\ BuildIdle /\ TrayIdle /\ ToastIdle /\ EventsIdle /\ TimerIdle /\ LocksIdle /\ TestIdle
    /\ config \in Configs
    /\ bluetooth_info \in Snapshots
    /\ notified_low_battery = {}
    /\ force_update = FALSE
    /\ threads = <<>>
    /\ step = "init" /\ ret = "none" /\ enumr = NoEnum
    /\ job = NoJob /\ emitted = EmptyBag
    /\ alerts = [id \in Addresses |-> "none"]
    /\ script = 0 /\ log = <<>> /\ fifo = TRUE

Next == UpdateTray \/ NotifyThread \/ ForceUpdateMenu

Spec == Init /\ [][Next]_vars

(***************************************************************************)
(* SpecHyst: one device observed at 50, then 10, 8, 12 and 5               *)
(***************************************************************************)
Readings == <<10, 8, 12, 5>>

Threshold == config.low_battery

HystDevice(battery, status) == BluetoothInfo("A", "a", battery, status)

\* the enumeration of the k-th scripted pass: device A alone, with the
\* connection state it has in the canonical snapshot
HystEnumeration(k) ==
    [found |-> [ok |-> TRUE,
                info |-> {HystDevice(Readings[k], d.status) : d \in bluetooth_info}],
     btc_ok |-> TRUE]

HystUpdateTray ==
    /\ script < Len(Readings)
    /\ UpdateTrayFound(HystEnumeration(script + 1), MaxRacing)
    /\ script' = script + 1
    /\ UNCHANGED <<log, fifo>>
    /\ UNCHANGED notMain

HystNotifyThread ==
    \E i \in 1..Len(threads) :
        /\ RunThread(i)
        /\ log' = IF LowBatteryFor(emitted', "A") = {} THEN log
                   ELSE Append(log, (CHOOSE n \in LowBatteryFor(emitted', "A") :
                                        TRUE).dev.battery)
        /\ fifo' = (fifo /\ i = 1)
        /\ UNCHANGED script
        /\ UNCHANGED notMain

HystInit ==
    /\ WatchIdle /\ BuildIdle /\ TrayIdle /\ ToastIdle /\ EventsIdle /\ TimerIdle /\ LocksIdle /\ TestIdle
    /\ config \in Configs
    /\ bluetooth_info \in {{HystDevice(50, s)} : s \in BOOLEAN}
    /\ notified_low_battery = {}
    /\ force_update = FALSE
    /\ threads = <<>>
    /\ step = "init" /\ ret = "none" /\ enumr = NoEnum
    /\ job = NoJob /\ emitted = EmptyBag
    /\ alerts = [id \in Addresses |-> "none"]
    /\ script = 0 /\ log = <<>> /\ fifo = TRUE

HystNext == HystUpdateTray \/ HystNotifyThread

SpecHyst == HystInit /\ [][HystNext]_vars

Finished == script = Len(Readings) /\ threads = <<>>

\* C1 as claimed: threshold 15, notified set initially empty, one device
\* observed at 50, 10, 8, 12, 5 with its connection state unchanged: once
\* the four passes and their notification work are done, exactly two
\* LowBattery notifications were sent, for the reading 10 and then for the
\* reading 5.
C1_TwoLowBatteryEvents == Finished => log = <<10, 5>>

\* C1 as amended: the readings 8, 12 and 5 are all below the threshold 15,
\* so the address is never taken out of the notified set: at no time more
\* than one LowBattery notification was sent, once all is done exactly one
\* was sent, for a reading below the threshold, and it is the one for the
\* reading 10 when the notification threads ran in the order of their
\* passes.
C1_OneLowBatteryEvent ==
    /\ Len(log) <= 1
    /\ Finished =>
          /\ Len(log) = 1
          /\ log[1] < Threshold
          /\ fifo => log = <<10>>

\* C1 witness: the four passes and their threads are done, in pass order,
\* and the one notification was sent for the reading 10; the device ends at
\* 5 and in the notified set.
C1_Witness ==
    /\ Finished /\ fifo
    /\ log = <<10>>
    /\ \E d \in bluetooth_info : d.battery = 5
    /\ notified_low_battery = {"A"}

(***************************************************************************)
(* Claims checked under Spec                                               *)
(***************************************************************************)

\* a LowBattery notification of address id was sent by the thread that ran
\* in this step
SendsLowBattery(id) == step' = "thread" /\ LowBatteryFor(emitted', id) # {}

\* the thread that ran in this step handled a paired record of address id
\* whose battery changed to a value satisfying Low(battery)
HandlesBatteryChange(id, Low(_)) ==
    /\ step' = "thread"
    /\ \E old \in job'.change_old, new \in job'.change_new :
          /\ old.id = id /\ new.id = id
          /\ new.battery # old.battery
          /\ Low(new.battery)

BelowThreshold(b) == b < Threshold
AtOrAboveThreshold(b) == b >= Threshold

C5_Idempotence ==
    [][(/\ step' = "UpdateTray"
        /\ enumr'.find_ok /\ enumr'.info_ok
        /\ enumr'.new_bt_info = bluetooth_info
        /\ ~force_update)
       => (/\ ret' = "no_update"
           /\ threads' = threads
           /\ emitted' = EmptyBag
           /\ bluetooth_info' = bluetooth_info
           /\ notified_low_battery' = notified_low_battery)
      ]_vars

\* C5 witness: a pass over an unchanged two-device snapshot reported "no
\* update needed" while an address was in the notified set.
C5_Witness ==
    /\ step = "UpdateTray" /\ ret = "no_update"
    /\ enumr.new_bt_info = bluetooth_info
    /\ Ids(bluetooth_info) = Addresses
    /\ notified_low_battery # {}

\* the notifications of one kind in a bag, with their multiplicity
Sent(out, kind, dev) == CopiesIn(Notification(kind, dev), out)

\* C9: a pass whose only difference is one paired record whose battery went
\* from at or above the threshold to below it, connection state unchanged,
\* stores the current snapshot as canonical; and its notification work, run
\* with the address not in the notified set, sends exactly one notification,
\* LowBattery for the new record, and puts the address in the set.
C9_LowBatteryScenario ==
    [][/\ (step' = "UpdateTray" /\ ret' = "updated")
          => bluetooth_info' = enumr'.new_bt_info
       /\ \A old \in job'.change_old, new \in job'.change_new :
            (/\ step' = "thread"
             /\ job'.change_old = {old} /\ job'.change_new = {new}
             /\ old.id = new.id /\ old.status = new.status
             /\ old.battery >= Threshold /\ new.battery < Threshold
             /\ new.id \notin notified_low_battery)
            => (/\ emitted' = One("LowBattery", new)
                /\ new.id \in notified_low_battery')
      ]_vars

\* C9 witness: canonical {A(15, connected)}, current {A(10, connected)}: the
\* thread of that pass sent exactly LowBattery(A at 10).
C9_Witness ==
    /\ step = "thread"
    /\ job.change_old = {BluetoothInfo("A", "a", 15, TRUE)}
    /\ job.change_new = {BluetoothInfo("A", "a", 10, TRUE)}
    /\ emitted = One("LowBattery", BluetoothInfo("A", "a", 10, TRUE))
    /\ bluetooth_info = {BluetoothInfo("A", "a", 10, TRUE)}
    /\ "A" \in notified_low_battery

\* the records of a pass that are new (address not in the previous snapshot)
\* and gone (address not in the current snapshot); a record that did not
\* change is in neither difference set, so the addresses of the difference
\* sets decide
NewDevices(j) == {n \in j.change_new : n.id \notin Ids(j.change_old)}
GoneDevices(j) == {o \in j.change_old : o.id \notin Ids(j.change_new)}

\* C6: with added-device notification enabled, every device whose address is
\* in current and not in previous is notified as Added by the pass, also
\* when nothing was removed or changed (previous = {}, current = {A, B}).
C6_AddedReported ==
    (step = "thread" /\ job.cfg.added)
    => \A n \in NewDevices(job) : Sent(emitted, "Added", n) = 1

\* C7: with removed-device notification enabled, every device whose address
\* is in previous and not in current is notified as Removed (and not as
\* Disconnected) by the pass, also when nothing was added or changed
\* (previous = {A connected}, current = {}).
C7_RemovedReported ==
    (step = "thread" /\ job.cfg.removed)
    => \A o \in GoneDevices(job) :
          /\ Sent(emitted, "Removed", o) = 1
          /\ Sent(emitted, "Disconnected", o) = 0

\* C8: Added is sent only for a record of current whose address is not in
\* previous, Removed only for a record of previous whose address is not in
\* current, each at most once per pass.
C8_AddedRemovedOnlyUnpaired ==
    step = "thread"
    => \A n \in BagToSet(emitted) :
          /\ n.kind = "Added" => n.dev \in NewDevices(job)
          /\ n.kind = "Removed" => n.dev \in GoneDevices(job)
          /\ n.kind \in {"Added", "Removed"} => CopiesIn(n, emitted) = 1

\* C10: a pass whose enumeration failed (the device list, or every allowed
\* read of the classic property store) while a non-empty snapshot is held
\* keeps that snapshot as the canonical one and spawns no notification work
\* (nothing is reported as removed).
C10_EnumerationFailureKeepsSnapshot ==
    [][(/\ step' = "UpdateTray"
        /\ ~enumr'.find_ok \/ ~enumr'.btc_ok
        /\ bluetooth_info # {})
       => (/\ bluetooth_info' = bluetooth_info
           /\ threads' = threads)
      ]_vars

\* C14: a pass whose two difference sets are equal spawns no notification
\* work (nothing is sent); with the force flag unset it returns before the
\* tray refresh, with the flag set it performs the refresh and the flag is
\* consumed.
C14_NoOpShortCircuit ==
    [][(/\ step' = "UpdateTray"
        /\ enumr'.find_ok /\ enumr'.info_ok
        /\ bluetooth_info \ enumr'.new_bt_info
             = enumr'.new_bt_info \ bluetooth_info)
       => (/\ threads' = threads
           /\ emitted' = EmptyBag
           /\ notified_low_battery' = notified_low_battery
           /\ ~force_update => ret' = "no_update"
           /\ force_update => ret' = "forced" /\ ~force_update')
      ]_vars

\* C14 witness: a forced pass over an unchanged, non-empty snapshot went on
\* to the refresh.
C14_Witness ==
    /\ step = "UpdateTray" /\ ret = "forced"
    /\ enumr.new_bt_info = bluetooth_info
    /\ bluetooth_info # {}
    /\ ~force_update
    /\ threads = <<>>

\* the application with no device and nothing pending
MainIdle ==
    /\ config = NotifyOptions(TRUE, TRUE, TRUE, TRUE)
    /\ bluetooth_info = {}
    /\ notified_low_battery = {}
    /\ force_update = FALSE
    /\ threads = <<>>
    /\ step = "init" /\ ret = "none" /\ enumr = NoEnum
    /\ job = NoJob /\ emitted = EmptyBag
    /\ alerts = [id \in Addresses |-> "none"]
    /\ script = 0 /\ log = <<>> /\ fifo = TRUE

(***************************************************************************)
(* SpecPass: one reconciliation pass from any snapshot, notified set,     *)
(* force flag and setting of the four switches                             *)
(***************************************************************************)
AllConfigs ==
    {NotifyOptions(d, r, a, m) : d \in BOOLEAN, r \in BOOLEAN,
                                 a \in BOOLEAN, m \in BOOLEAN}

PassInit ==
    /\ WatchIdle /\ BuildIdle /\ TrayIdle /\ ToastIdle /\ EventsIdle /\ TimerIdle /\ LocksIdle /\ TestIdle
    /\ config \in AllConfigs
    /\ bluetooth_info \in Snapshots
    /\ notified_low_battery \in SUBSET Addresses
    /\ force_update \in BOOLEAN
    /\ threads = <<>>
    /\ step = "init" /\ ret = "none" /\ enumr = NoEnum
    /\ job = NoJob /\ emitted = EmptyBag
    /\ alerts = [id \in Addresses |-> "none"]
    /\ script = 0 /\ log = <<>> /\ fifo = TRUE

PassUpdateTray == step = "init" /\ UpdateTray

PassNotifyThread == NotifyThread

PassNext == PassUpdateTray \/ PassNotifyThread

SpecPass == PassInit /\ [][PassNext]_vars

\* the paired records of the pass whose thread ran last
Paired(j) ==
    {p \in j.change_old \X j.change_new : p[1].id = p[2].id}

\* C13: for a paired record whose connection state changed the pass sends
\* Reconnected, once, when the state went false to true and reconnection is
\* enabled, Disconnected, once, when it went true to false and
\* disconnection is enabled, and nothing of the two otherwise (option
\* disabled, or state unchanged); never both for one device; and no
\* connection notification is sent for any other record.
C13_ConnectionEvents ==
    step = "thread" =>
      /\ \A p \in Paired(job) :
            LET old == p[1]
                new == p[2]
            IN  /\ Sent(emitted, "Reconnected", new) =
                      IF ~old.status /\ new.status /\ job.cfg.reconnection
                      THEN 1 ELSE 0
                /\ Sent(emitted, "Disconnected", new) =
                      IF old.status /\ ~new.status /\ job.cfg.disconnection
                      THEN 1 ELSE 0
                /\ Sent(emitted, "Reconnected", new)
                     + Sent(emitted, "Disconnected", new) <= 1
      /\ \A n \in BagToSet(emitted) :
            n.kind \in {"Reconnected", "Disconnected"}
            => \E p \in Paired(job) : n.dev = p[2]

\* C13 witness: with reconnection enabled and disconnection disabled, A went
\* from disconnected to connected at an unchanged battery and the pass sent
\* exactly Reconnected(A).
C13_Witness ==
    /\ step = "thread"
    /\ job.cfg.reconnection /\ ~job.cfg.disconnection
    /\ job.change_old = {BluetoothInfo("A", "a", 15, FALSE)}
    /\ job.change_new = {BluetoothInfo("A", "a", 15, TRUE)}
    /\ emitted = One("Reconnected", BluetoothInfo("A", "a", 15, TRUE))

\* C28: for a paired record whose battery and connection state both
\* changed, the thread of the pass sends LowBattery, once, exactly when the
\* new battery is below the threshold and the address was not in the
\* notified set, and sends the connection notification, once, exactly when
\* its option is enabled: each is sent whether or not the other is.
C28_BothEventsInOnePass ==
    [][step' = "thread"
       => \A p \in Paired(job') :
             LET old == p[1]
                 new == p[2]
             IN  (old.battery # new.battery /\ old.status # new.status)
                 => /\ Sent(emitted', "LowBattery", new) =
                         IF new.battery < job'.cfg.low_battery
                            /\ new.id \notin notified_low_battery
                         THEN 1 ELSE 0
                    /\ Sent(emitted', "Reconnected", new) =
                         IF new.status /\ job'.cfg.reconnection THEN 1 ELSE 0
                    /\ Sent(emitted', "Disconnected", new) =
                         IF ~new.status /\ job'.cfg.disconnection THEN 1 ELSE 0
      ]_vars

\* C28 witness: A went from 15 and connected to 10 and disconnected with
\* every option on, and the thread of the pass sent LowBattery(A) and
\* Disconnected(A).
C28_Witness ==
    /\ step = "thread"
    /\ job.cfg = NotifyOptions(TRUE, TRUE, TRUE, TRUE)
    /\ job.change_old = {BluetoothInfo("A", "a", 15, TRUE)}
    /\ job.change_new = {BluetoothInfo("A", "a", 10, FALSE)}
    /\ emitted = One("LowBattery", BluetoothInfo("A", "a", 10, FALSE))
                   (+) One("Disconnected", BluetoothInfo("A", "a", 10, FALSE))

\* C31: an UpdateTray pass whose enumeration succeeded and differs from the
\* canonical snapshot leaves the canonical snapshot equal to the enumerated
\* one, whatever was in it; a pass whose enumeration equals the canonical
\* snapshot changes neither the snapshot nor the notified set and spawns
\* no thread.
C31_SnapshotReplacedAsAWhole ==
    [][(step' = "UpdateTray" /\ enumr'.find_ok /\ enumr'.info_ok)
       => IF enumr'.new_bt_info # bluetooth_info
          THEN bluetooth_info' = enumr'.new_bt_info
          ELSE /\ bluetooth_info' = bluetooth_info
               /\ notified_low_battery' = notified_low_battery
               /\ threads' = threads
      ]_vars

\* C31 witness: the canonical snapshot held A and B, the pass enumerated B
\* alone, and the canonical snapshot is now B alone.
C31_Witness ==
    /\ step = "UpdateTray" /\ ret = "updated"
    /\ Len(threads) = 1
    /\ Ids(threads[1].change_old) = {"A"} /\ threads[1].change_new = {}
    /\ Ids(bluetooth_info) = {"B"}
    /\ bluetooth_info = enumr.new_bt_info

(***************************************************************************)
(* SpecBuild: get_bluetooth_info on any outcome of the two device queries  *)
(***************************************************************************)
\* a dual-mode device: the address of the classic device A enumerated by the
\* low-energy query too, its battery read from the device
DualDevices ==
    {[id |-> "A", name |-> "a", battery |-> b, status |-> TRUE, ok |-> o] :
        b \in Batteries, o \in BOOLEAN}

\* a second classic device, and the pnp tables over the two addresses
OtherBtcDevices ==
    {[id |-> "C", name |-> "c", status |-> TRUE, ok |-> o] : o \in BOOLEAN}

BuildPnpTables ==
    UNION {[keys -> Batteries] : keys \in SUBSET {"A", "C"}}

\* every outcome of the calls of get_pnp_btc_devices_info: each fails or
\* returns a table
BuildTries ==
    [1..max_retries ->
        {[ok |-> FALSE, info |-> <<>>]}
            \cup {[ok |-> TRUE, info |-> t] : t \in BuildPnpTables}]

BuildWorlds ==
    [btc : {x \cup y : x \in {{}} \cup {{d} : d \in BtcDevices},
                       y \in {{}} \cup {{d} : d \in OtherBtcDevices}},
     ble : {x \cup y : x \in {{}} \cup {{d} : d \in BleDevices},
                       y \in {{}} \cup {{d} : d \in DualDevices}},
     tries : BuildTries]

BuildInit ==
    /\ WatchIdle /\ MainIdle /\ TrayIdle /\ ToastIdle /\ EventsIdle /\ TimerIdle /\ LocksIdle /\ TestIdle
    /\ world \in BuildWorlds
    /\ built = NotBuilt

\* get_bluetooth_info(find_bluetooth_devices()?)
BuildQuery ==
    /\ ~built.done
    /\ built' = [done |-> TRUE] @@
                 get_bluetooth_info(world.btc, world.ble, world.tries)
    /\ UNCHANGED world
    /\ UNCHANGED notBuild

BuildNext == BuildQuery

SpecBuild == BuildInit /\ [][BuildNext]_vars

\* C12: no snapshot get_bluetooth_info returns holds two records of one
\* address, also when a device is enumerated by the classic and by the
\* low-energy query under the same address.
C12_UniqueAddress ==
    (built.done /\ built.ok)
    => \A x, y \in built.info : x.id = y.id => x = y

\* the table the retry loop of get_btc_info handed to process_btc_device
PnpOf(w) == pnp_retry(w.tries, 0)

\* the queries of a classic device succeeded: its reads, and its address in
\* the table
BtcSucceeds(d, w) == d.ok /\ PnpOf(w).ok /\ d.id \in DOMAIN PnpOf(w).info

\* the records of the devices whose queries succeeded
BtcRecord(d, w) == BluetoothInfo(d.id, d.name, PnpOf(w).info[d.id], d.status)

BleRecord(e) == BluetoothInfo(e.id, e.name, e.battery, e.status)

SucceededRecords(w) ==
    {BtcRecord(d, w) : d \in {x \in w.btc : BtcSucceeds(x, w)}}
        \cup {BleRecord(e) : e \in {x \in w.ble : x.ok}}

\* C24: a device whose query fails (a read from the device, or the lookup
\* of its address) is left out of the snapshot and every device whose query
\* succeeds is in it; the batch is an error only when no device was listed,
\* never because a device failed.
C24_PerDeviceIsolation ==
    built.done
    => /\ built.ok <=> (world.btc # {} \/ world.ble # {})
       /\ built.ok => built.info = SucceededRecords(world)

\* C24 witness: the classic device A and the low-energy device B failed,
\* the classic device C and the low-energy device at address A succeeded,
\* and the snapshot holds exactly the two that succeeded.
C24_Witness ==
    /\ built.done /\ built.ok
    /\ \E d \in world.btc : d.id = "A" /\ ~d.ok
    /\ \E e \in world.ble : e.id = "B" /\ ~e.ok
    /\ \E d \in world.btc : d.id = "C" /\ BtcSucceeds(d, world)
    /\ \E e \in world.ble : e.id = "A" /\ e.ok
    /\ Cardinality(built.info) = 2
    /\ {x.id : x \in built.info} = {"A", "C"}

\* C25: a classic device (no low-energy device at its address) is in the
\* snapshot only with the battery the pnp table holds under the device's own
\* address, and is absent when the table has no entry under that address,
\* whatever the table holds for other addresses.
C25_ExactAddressMatch ==
    (built.done /\ built.ok)
    => \A d \in world.btc :
          (\A e \in world.ble : e.id # d.id)
          => \A x \in built.info :
                x.id = d.id
                => /\ PnpOf(world).ok
                   /\ d.id \in DOMAIN PnpOf(world).info
                   /\ x.battery = PnpOf(world).info[d.id]

\* C25 witness: the table holds 10 for C only; A and C were both read, C is
\* in the snapshot at 10 and A is not in it.
C25_Witness ==
    /\ built.done /\ built.ok
    /\ world.ble = {}
    /\ {d.id : d \in world.btc} = {"A", "C"}
    /\ \A d \in world.btc : d.ok
    /\ PnpOf(world).ok
    /\ PnpOf(world).info = ("C" :> 10)
    /\ built.info = {BluetoothInfo("C", "c", 10, TRUE)}

\* the results a collection can return: the error, or Ok of a set of records
CollectionResults ==
    {[ok |-> FALSE, info |-> {}]} \cup
    {[ok |-> TRUE, info |-> i] :
        i \in SUBSET {BluetoothInfo("A", "a", 10, TRUE), BluetoothInfo("B", "b", 15, TRUE)}}

\* C39: with devices of both kinds listed, the snapshot is exactly the
\* records of the collection that succeeded when the other one failed, and
\* the result is the error when both failed; with no device of either kind
\* listed the result is the error. The match on the two results does so for
\* every pair of results.
C39_OneTransportFailingKeepsTheOther ==
    built.done
    => LET btc_result == get_btc_info(world.btc, world.tries)
           ble_result == get_ble_info(world.ble)
       IN  /\ (world.btc = {} /\ world.ble = {}) => ~built.ok
           /\ (world.btc # {} /\ world.ble # {})
              => /\ (~btc_result.ok /\ ble_result.ok)
                    => (built.ok /\ built.info = ble_result.info)
                 /\ (btc_result.ok /\ ~ble_result.ok)
                    => (built.ok /\ built.info = btc_result.info)
                 /\ (~btc_result.ok /\ ~ble_result.ok) => ~built.ok
           /\ \A b, l \in CollectionResults :
                 /\ (b.ok /\ ~l.ok) => match_results(b, l) = b
                 /\ (~b.ok /\ l.ok) => match_results(b, l) = l
                 /\ (~b.ok /\ ~l.ok) => ~match_results(b, l).ok

\* C39 witness: a classic and a low-energy device are listed, the pnp
\* enumeration failed in every try, and the snapshot is the record of the
\* low-energy device.
C39_Witness ==
    /\ built.done /\ built.ok
    /\ world.btc # {} /\ world.ble # {}
    /\ ~get_btc_info(world.btc, world.tries).ok
    /\ built.info # {}
    /\ built.info = get_ble_info(world.ble).info

(***************************************************************************)
(* SpecWatch: the per-device watcher supervisor (listen.rs)                *)
(***************************************************************************)
\* the devices a caller selects: a classic one and a low-energy one
Targets ==
    {WatchedInfo("a", 50, TRUE, "A", "Classic"),
     WatchedInfo("b", 50, TRUE, "B", "LowEnergy")}

\* what a watcher can read of its device: the battery or the connection
\* status differs from current_device_info
Updates(dev) ==
    {[dev EXCEPT !.status = ~@]} \cup
    {[dev EXCEPT !.battery = b] : b \in {20, 50} \ {dev.battery}}

\* has_matching_threa finding no match, whatever is recorded
has_no_matching_threa(info) == FALSE

\* ThreadManager::has_matching_threa
has_matching_threa(info) ==
    /\ info # None
    /\ current_bluetooth_info # None
    /\ current_bluetooth_info.type = info.type
    /\ current_bluetooth_info.address = info.address

\* handle.join() returns without waiting for the thread
JoinWithoutWaiting(t) == TRUE

\* handle.join() returns once the thread has ended, by return or by panic
JoinDone(t) == th[t].pc \in {"exited", "panicked"}

\* the call returns: its result is recorded and the tick flips
Return(op, target, res) ==
    wret' = [op |-> op, target |-> target, res |-> res, tick |-> 1 - wret.tick]

\* cleanup leaving the handle and the exit flag in the slot
CleanupKeepingHandle(op, target) ==
    /\ th' = [th EXCEPT ![exit_flag].exit_flag = TRUE]
    /\ caller' = [pc |-> "join", op |-> op, target |-> target, t |-> handle]
    /\ lock' = "caller"
    /\ UNCHANGED <<handle, exit_flag, current_bluetooth_info, spawned, wret>>

\* ThreadManager::cleanup up to handle.join(): both options are taken, the
\* exit flag is stored, and the caller waits with THREAD_STATE locked
CleanupThenJoin(op, target) ==
    /\ th' = [th EXCEPT ![exit_flag].exit_flag = TRUE]
    /\ caller' = [pc |-> "join", op |-> op, target |-> target, t |-> handle]
    /\ handle' = 0 /\ exit_flag' = 0
    /\ lock' = "caller"
    /\ UNCHANGED <<current_bluetooth_info, spawned, wret>>

\* listen_bluetooth_device_info from "create exit flag" to its return
CreateThread(target) ==
    /\ caller' = Idle
    /\ lock' = "free"
    /\ IF target = None
       THEN /\ Return("create", target, "err")
            /\ UNCHANGED <<th, spawned, current_bluetooth_info>>
            /\ handle' = 0 /\ exit_flag' = 0
       ELSE /\ spawned' = spawned + 1
            /\ th' = [th EXCEPT ![spawned + 1] =
                         [pc |-> "start", exit_flag |-> FALSE, dev |-> target,
                          closed |-> FALSE]]
            /\ handle' = spawned + 1 /\ exit_flag' = spawned + 1
            /\ current_bluetooth_info' = target
            /\ Return("create", target, "ok")

\* listen_bluetooth_device_info(bluetooth_device, create = true, proxy)
ListenCreate(bluetooth_device) ==
    /\ caller.pc = "idle" /\ lock = "free"
    /\ bluetooth_device # None => spawned < MaxSpawns
    /\ UNCHANGED notWatch
    /\ UNCHANGED channel
    /\ IF has_matching_threa(bluetooth_device)
       THEN /\ Return("create", bluetooth_device, "already")
            /\ UNCHANGED <<lock, handle, exit_flag, current_bluetooth_info,
                           caller, th, spawned>>
       ELSE IF handle # 0
       THEN CleanupThenJoin("create", bluetooth_device)
       ELSE CreateThread(bluetooth_device)

\* listen_bluetooth_device_info(_, create = false, _) and
\* stop_bluetooth_monitoring(): cleanup, its error returned
StopMonitoring ==
    /\ caller.pc = "idle" /\ lock = "free"
    /\ UNCHANGED notWatch
    /\ UNCHANGED channel
    /\ IF handle # 0
       THEN CleanupThenJoin("stop", None)
       ELSE /\ Return("stop", None, "ok")
            /\ UNCHANGED <<lock, handle, exit_flag, current_bluetooth_info,
                           caller, th, spawned>>

\* JoinReturn going on without the thread having ended
JoinReturnWithoutJoin ==
    /\ caller.pc = "join"
    /\ UNCHANGED notWatch
    /\ UNCHANGED channel
    /\ IF caller.op = "create"
       THEN CreateThread(caller.target)
       ELSE /\ Return("stop", None, "ok")
            /\ caller' = Idle
            /\ lock' = "free"
            /\ UNCHANGED <<handle, exit_flag, current_bluetooth_info, th, spawned>>

\* handle.join() has returned: cleanup ends and the call goes on
JoinReturn ==
    /\ caller.pc = "join"
    /\ JoinDone(caller.t)
    /\ UNCHANGED notWatch
    /\ UNCHANGED channel
    /\ IF caller.op = "create"
       THEN CreateThread(caller.target)
       ELSE /\ Return("stop", None,
                      IF th[caller.t].pc = "panicked" THEN "err" ELSE "ok")
            /\ caller' = Idle
            /\ lock' = "free"
            /\ UNCHANGED <<handle, exit_flag, current_bluetooth_info, th, spawned>>

\* where the thread goes after a round: a low-energy watcher loops at once,
\* a classic one sleeps first
AfterRound(dev) == IF dev.type = "LowEnergy" THEN "loop" ELSE "sleep"

\* thread body, lines 140-144: lock THREAD_STATE, publish the initial info
ThreadPublishInitial(t) ==
    /\ th[t].pc = "start" /\ lock = "free"
    /\ current_bluetooth_info' = th[t].dev
    /\ th' = [th EXCEPT ![t].pc = "loop"]
    /\ UNCHANGED <<lock, handle, exit_flag, caller, spawned, wret, channel>>
    /\ UNCHANGED notWatch

\* while !thread_exit_flag.load(..)
ThreadLoopTop(t) ==
    /\ th[t].pc = "loop"
    /\ th' = [th EXCEPT ![t].pc = IF th[t].exit_flag THEN "exited" ELSE "process"]
    /\ UNCHANGED <<lock, handle, exit_flag, current_bluetooth_info, caller,
                   spawned, wret, channel>>
    /\ UNCHANGED notWatch

\* process_classic_device / process_le_device. With the flag set: Ok(None).
\* Else: Ok(None) or an Err of a device read; a changed reading, sent to the
\* event loop, gives Ok(Some(new_info)), or Err when the channel is closed;
\* for a low-energy device, the panic of Runtime::new().expect(..)
ThreadProcess(t) ==
    /\ th[t].pc = "process"
    /\ \/ th' = [th EXCEPT ![t].pc = AfterRound(th[t].dev)]
       \/ /\ ~th[t].exit_flag
          /\ channel = "open"
          /\ \E new_info \in Updates(th[t].dev) :
                th' = [th EXCEPT ![t].pc = "publish", ![t].dev = new_info]
       \/ /\ ~th[t].exit_flag
          /\ channel = "closed"
          /\ th' = [th EXCEPT ![t].pc = AfterRound(th[t].dev),
                              ![t].closed = TRUE]
       \/ /\ ~th[t].exit_flag
          /\ th[t].dev.type = "LowEnergy"
          /\ th' = [th EXCEPT ![t].pc = "panicked"]
    /\ UNCHANGED <<lock, handle, exit_flag, current_bluetooth_info, caller,
                   spawned, wret, channel>>
    /\ UNCHANGED notWatch

\* thread body, lines 176-180: lock THREAD_STATE, publish the new info
ThreadPublishUpdate(t) ==
    /\ th[t].pc = "publish" /\ lock = "free"
    /\ current_bluetooth_info' = th[t].dev
    /\ th' = [th EXCEPT ![t].pc = AfterRound(th[t].dev)]
    /\ UNCHANGED <<lock, handle, exit_flag, caller, spawned, wret, channel>>
    /\ UNCHANGED notWatch

\* the sleep loop of a classic watcher, left early when the flag is set
ThreadSleep(t) ==
    /\ th[t].pc = "sleep"
    /\ th' = [th EXCEPT ![t].pc = "loop"]
    /\ UNCHANGED <<lock, handle, exit_flag, current_bluetooth_info, caller,
                   spawned, wret, channel>>
    /\ UNCHANGED notWatch

\* the event loop ends: every later send_event of a watcher fails
CloseChannel ==
    /\ channel = "open"
    /\ channel' = "closed"
    /\ UNCHANGED <<lock, handle, exit_flag, current_bluetooth_info, caller,
                   th, spawned, wret>>
    /\ UNCHANGED notWatch

WatchInit == WatchIdle /\ MainIdle /\ BuildIdle /\ TrayIdle /\ ToastIdle /\ EventsIdle /\ TimerIdle /\ LocksIdle /\ TestIdle

ThreadStep(t) ==
    \/ ThreadPublishInitial(t)
    \/ ThreadLoopTop(t)
    \/ ThreadProcess(t)
    \/ ThreadPublishUpdate(t)
    \/ ThreadSleep(t)

WatchNext ==
    \/ \E d \in Targets \cup {None} : ListenCreate(d)
    \/ StopMonitoring
    \/ JoinReturn
    \/ CloseChannel
    \/ \E t \in 1..MaxSpawns : ThreadStep(t)

SpecWatch == WatchInit /\ [][WatchNext]_vars

\* the scheduler runs every watcher thread that can take a step, and a join
\* returns once its thread has ended
SpecWatchFair ==
    /\ SpecWatch
    /\ \A t \in 1..MaxSpawns : WF_vars(ThreadStep(t))
    /\ WF_vars(JoinReturn)

Alive(t) == th[t].pc \notin {"unborn", "exited", "panicked"}

\* C3: at most one watcher thread is alive at any time, and whenever a
\* later thread has been spawned every earlier one has had its exit flag set
\* and has ended (it was joined before the spawn).
C3_WatcherExclusivity ==
    /\ Cardinality({t \in 1..MaxSpawns : Alive(t)}) <= 1
    /\ \A t1, t2 \in 1..MaxSpawns :
          (t1 < t2 /\ th[t2].pc # "unborn")
          => th[t1].exit_flag /\ ~Alive(t1)

\* C3 witness: select(A) then select(B): A's thread has exited with its flag
\* set, B's thread is in its monitoring loop, the caller has returned.
C3_Witness ==
    /\ th[1].pc = "exited" /\ th[1].exit_flag /\ th[1].dev.address = "A"
    /\ th[2].pc = "process" /\ th[2].dev.address = "B"
    /\ caller.pc = "idle" /\ wret.res = "ok" /\ handle = 2

\* C4: the caller is never joining a watcher thread, THREAD_STATE locked,
\* while that thread waits for THREAD_STATE to publish its initial or its
\* updated device info: from there neither of the two can ever take a step.
C4_SelectAndStopMakeProgress ==
    ~(/\ caller.pc = "join" /\ lock = "caller"
      /\ th[caller.t].pc \in {"start", "publish"})

\* a supervisor call of kind op with this target is entered in this step: it
\* returns at once, or it starts to join the thread it found
CallStep(op, target) ==
    /\ caller.pc = "idle"
    /\ \/ wret'.tick # wret.tick /\ wret'.op = op /\ wret'.target = target
       \/ caller'.pc = "join" /\ caller'.op = op /\ caller'.target = target

\* a supervisor call of kind op returns in this step
ReturnStep(op) == wret'.tick # wret.tick /\ wret'.op = op

NoneAlive == \A t \in 1..MaxSpawns : ~Alive(t)

\* the supervisor's slot and the threads, without the record of the calls
slot == <<lock, handle, exit_flag, current_bluetooth_info, caller, th, spawned>>

\* C15: listen_bluetooth_device_info(create = true, target) entered while
\* the slot holds a live watcher thread whose device has the target's
\* address and type returns at once, having stopped and spawned no thread
\* and left handle, exit flag and recorded device info as they were.
C15_SelectSameTargetIsNoOp ==
    [][\A d \in Targets :
          (/\ CallStep("create", d)
           /\ handle # 0 /\ Alive(handle)
           /\ th[handle].dev.address = d.address
           /\ th[handle].dev.type = d.type)
          => (/\ ReturnStep("create") /\ wret'.res = "already"
              /\ UNCHANGED slot)
      ]_vars

\* C15 witness: select(A) again returned "already running" while A's thread
\* is alive and has published a reading that differs from the target record.
C15_Witness ==
    /\ wret.op = "create" /\ wret.res = "already"
    /\ handle # 0 /\ Alive(handle)
    /\ th[handle].dev # wret.target
    /\ current_bluetooth_info = th[handle].dev
    /\ th[handle].dev.address = wret.target.address

\* C16: a stop entered with no watcher in the slot returns Ok at once and
\* changes nothing; a stop that returns right after another stop has
\* returned is such a call, and then no thread is alive.
C16_StopIsSafeAndIdempotent ==
    [][/\ (CallStep("stop", None) /\ handle = 0)
          => (/\ ReturnStep("stop") /\ wret'.res = "ok"
              /\ UNCHANGED slot)
       /\ (ReturnStep("stop") /\ wret.op = "stop")
          => (/\ caller.pc = "idle" /\ handle = 0
              /\ wret'.res = "ok"
              /\ UNCHANGED slot
              /\ NoneAlive)
      ]_vars

\* C16 witness: after a watcher was started and stopped, a second stop has
\* returned Ok with the stopped thread ended and no thread alive.
C16_Witness ==
    /\ wret.op = "stop" /\ wret.res = "ok" /\ wret.tick = 1
    /\ spawned = 1 /\ th[1].pc = "exited"
    /\ handle = 0 /\ caller.pc = "idle"
    /\ NoneAlive

\* C17: once the exit flag of a watcher thread is set, the thread eventually
\* leaves its loop and ends.
C17_CancellationIsBounded ==
    \A t \in 1..MaxSpawns :
        th[t].exit_flag ~> th[t].pc \in {"exited", "panicked"}

\* C18: a create call for a target that returns while the thread of the slot
\* has panicked leaves a freshly spawned watcher thread of the target in the
\* slot, be the target that of the panicked watcher or another one.
C18_PanickedSlotIsIdle ==
    [][(/\ ReturnStep("create") /\ wret'.target # None
        /\ \/ caller.pc = "idle" /\ handle # 0 /\ th[handle].pc = "panicked"
           \/ caller.pc = "join" /\ th[caller.t].pc = "panicked")
       => (/\ spawned' = spawned + 1
           /\ handle' = spawned'
           /\ th'[handle'].pc = "start"
           /\ th'[handle'].dev = wret'.target)
      ]_vars

\* C19: a watcher thread whose send has met the closed channel starts no
\* further round of its loop.
C19_ClosedChannelEndsWatcher ==
    \A t \in 1..MaxSpawns : th[t].closed => th[t].pc # "process"

\* C20: when listen_bluetooth_device_info(None, create = false) or
\* stop_bluetooth_monitoring returns, the slot is empty, the thread that was
\* in it has had its exit flag set and has ended, and no watcher thread is
\* alive.
C20_SelectNoneStopsWatch ==
    [][ReturnStep("stop")
       => (/\ handle' = 0 /\ exit_flag' = 0
           /\ \A t \in 1..MaxSpawns : ~Alive(t)'
           /\ caller.pc = "join"
              => th[caller.t].exit_flag /\ ~Alive(caller.t))
      ]_vars

\* C20 witness: select(B), then select(None): the call has returned Ok and
\* B's thread, which had taken up monitoring, has exited with its flag set.
C20_Witness ==
    /\ wret.op = "stop" /\ wret.res = "ok" /\ wret.tick = 0
    /\ spawned = 1 /\ th[1].pc = "exited" /\ th[1].exit_flag
    /\ th[1].dev.address = "B"
    /\ current_bluetooth_info # None
    /\ NoneAlive

\* C35: a create call that returns early as "already running" found a
\* watcher thread in the slot; so does the create call that follows a stop:
\* a select of the target that was watched before the stop is not answered
\* that way.
C35_AlreadyRunningHasThread ==
    [][(ReturnStep("create") /\ wret'.res = "already" /\ wret.op = "stop")
       => handle # 0
      ]_vars

\* C36: a create call without a device returns the error at once and leaves
\* the slot (lock, handle, exit flag, recorded device, threads) as it was.
C36_CreateWithoutDeviceChangesNothing ==
    [][(ReturnStep("create") /\ wret'.target = None)
       => (/\ wret'.res = "err"
           /\ caller.pc = "idle"
           /\ UNCHANGED slot)
      ]_vars

\* the part of C36 that is about a call entered with an empty slot
C36_CreateWithoutDeviceOnEmptySlot ==
    [][(ReturnStep("create") /\ wret'.target = None /\ caller.pc = "idle")
       => (wret'.res = "err" /\ UNCHANGED slot)
      ]_vars

(***************************************************************************)
(* SpecPoll: the watcher thread of a classic device, poll by poll          *)
(***************************************************************************)
\* what one poll reads: the connection status of the device, the battery of
\* its PnP entry, whether the two addresses are equal, and whether the
\* reads succeeded
PollObservations ==
    [status : BOOLEAN, battery : {20, 50}, matches : BOOLEAN, ok : BOOLEAN]

\* the result of a poll: Ok(None), Err, or Ok(Some(info)) with the event sent
PollNone == [res |-> "none", info |-> None, sent |-> FALSE]
PollErr == [res |-> "err", info |-> None, sent |-> FALSE]
PollSome(info) == [res |-> "some", info |-> info, sent |-> TRUE]

\* process_classic_device sending the event for every reading of the device
process_classic_device_on_every_poll(thread_bluetooth_device, obs, exit, open) ==
    IF exit THEN PollNone
    ELSE IF ~obs.ok THEN PollErr
    ELSE IF obs.matches
    THEN IF ~open THEN PollErr
         ELSE PollSome([thread_bluetooth_device EXCEPT
                           !.battery = obs.battery, !.status = obs.status])
    ELSE PollNone

\* process_classic_device: the address of current_blc_info is that of the
\* PnP entry, equal to the device's when the branch is taken
process_classic_device(thread_bluetooth_device, obs, exit, open) ==
    IF exit THEN PollNone
    ELSE IF ~obs.ok THEN PollErr
    ELSE IF /\ obs.matches
            /\ \/ thread_bluetooth_device.status # obs.status
               \/ thread_bluetooth_device.battery # obs.battery
    THEN IF ~open THEN PollErr
         ELSE PollSome([thread_bluetooth_device EXCEPT
                           !.battery = obs.battery, !.status = obs.status])
    ELSE PollNone

notPoll ==
    <<dw, advance, mainVars, buildVars, trayVars, toastVars, eventVars, timerVars, lockVars>>

\* one round of the thread body for a classic device (151-184): the poll,
\* then current_device_info = new_info on Ok(Some(new_info)), the Err only
\* printed
PollProcess(t) ==
    /\ th[t].pc = "process"
    /\ \E obs \in PollObservations :
          LET r == process_classic_device(th[t].dev, obs, th[t].exit_flag,
                                          channel = "open")
          IN  /\ th' = [th EXCEPT
                     ![t].pc = IF r.res = "some" THEN "publish"
                               ELSE AfterRound(th[t].dev),
                     ![t].dev = IF r.res = "some" THEN r.info ELSE th[t].dev,
                     ![t].closed = th[t].closed
                                   \/ (r.res = "err" /\ obs.ok /\ channel # "open")]
              /\ last_poll' = [t |-> t, obs |-> obs, pushed |-> r.sent]
    /\ UNCHANGED <<lock, handle, exit_flag, current_bluetooth_info, caller,
                   spawned, wret, channel>>
    /\ UNCHANGED notPoll

ClassicTargets == {d \in Targets : d.type = "Classic"}

PollInit == WatchInit

PollThreadStep(t) ==
    \/ ThreadPublishInitial(t)
    \/ ThreadLoopTop(t)
    \/ PollProcess(t)
    \/ ThreadPublishUpdate(t)
    \/ ThreadSleep(t)

PollNext ==
    \/ \E d \in ClassicTargets : ListenCreate(d)
    \/ StopMonitoring
    \/ JoinReturn
    \/ CloseChannel
    \/ \E t \in 1..MaxSpawns : PollThreadStep(t)

SpecPoll == PollInit /\ [][PollNext]_vars

\* the step is a poll of thread t
Polls(t) == th[t].pc = "process" /\ last_poll' # last_poll

\* the poll of this step read the status and the battery of the poll before
SameReading ==
    /\ last_poll.obs # None /\ last_poll.obs.ok /\ last_poll'.obs.ok
    /\ last_poll'.obs.status = last_poll.obs.status
    /\ last_poll'.obs.battery = last_poll.obs.battery

\* C37: a poll of the classic watcher pushes an update event only when the
\* status or the battery it read differs from the last known record; the
\* thread then takes the record with the status and battery read, and the
\* name, address and type it had, as last known, and stores it in the
\* supervisor state; a poll that pushes nothing leaves the record alone;
\* and of two consecutive polls of a thread that read the same status and
\* battery at most one pushes an event.
C37_UpdateOnlyOnChange ==
    [][\A t \in 1..MaxSpawns :
          /\ Polls(t)
             => /\ last_poll'.pushed
                   => /\ \/ last_poll'.obs.status # th[t].dev.status
                         \/ last_poll'.obs.battery # th[t].dev.battery
                      /\ th'[t].dev = [th[t].dev EXCEPT
                                          !.battery = last_poll'.obs.battery,
                                          !.status = last_poll'.obs.status]
                      /\ th'[t].pc = "publish"
                /\ ~last_poll'.pushed => th'[t].dev = th[t].dev
                /\ (last_poll.t = t /\ SameReading)
                   => ~(last_poll.pushed /\ last_poll'.pushed)
          /\ (th[t].pc = "publish" /\ th'[t].pc # "publish")
             => current_bluetooth_info' = th[t].dev
      ]_vars

\* C37 witness: the watcher of A read 20 % twice: the first poll pushed the
\* update and the record at 20 % was adopted by the thread and the
\* supervisor, the second poll pushed nothing.
C37_Witness ==
    /\ last_poll.t = 1 /\ ~last_poll.pushed
    /\ last_poll.obs = [status |-> TRUE, battery |-> 20, matches |-> TRUE, ok |-> TRUE]
    /\ th[1].dev = WatchedInfo("a", 20, TRUE, "A", "Classic")
    /\ current_bluetooth_info = th[1].dev
    /\ th[1].pc = "sleep"

(***************************************************************************)
(* SpecTray: the polling tray of src/src/systray.rs. update_tray is one    *)
(* synchronous pass; its try_lock calls succeed (a pass that fails to      *)
(* take a lock returns before it has written anything) and notify()        *)
(* returns. A snapshot has one record per id.                              *)
(***************************************************************************)
\* the records device A and device B can be enumerated as
TrayDevices ==
    {BluetoothInfo("A", "a", b, s) : b \in Batteries, s \in BOOLEAN}
    \cup {BluetoothInfo("A", "a", 5, TRUE),
          BluetoothInfo("A", "a2", LowBatteryDefault, TRUE),
          BluetoothInfo("B", "b", LowBatteryDefault, TRUE)}

\* what get_bluetooth_tray_info returns as the third component
TraySnapshots ==
    {x \cup y : x \in {{}} \cup {{d} : d \in {t \in TrayDevices : t.id = "A"}},
                y \in {{}} \cup {{d} : d \in {t \in TrayDevices : t.id = "B"}}}

\* Config of the tray as read from the ini file: notify_low_battery is
\* Option<u8>, None written 0 as in the ini file and the menu handler; the
\* four notification options all on or all off
TrayConfigs ==
    {[notify_low_battery |-> l,
      notify_reconnection |-> o, notify_disconnection |-> o,
      notify_added_devices |-> o, notify_remove_devices |-> o] :
        l \in {0, LowBatteryDefault}, o \in BOOLEAN}

\* loop_systray: the low-battery map after the startup notification, keyed
\* by device.name
StartupLowBattery(cfg, info) ==
    [k \in LowKeys |->
        IF /\ cfg.notify_low_battery # 0
           /\ \E device \in info : /\ device.name = k
                                   /\ device.battery < cfg.notify_low_battery
                                   /\ device.status
        THEN "true" ELSE "none"]

\* current_blue_info.difference(&original_blue_info)
changed_devices(current, original) == current \ original

\* original_blue_info.difference(&current_blue_info)
reverted_devices(current, original) == original \ current

\* reverted_devices.iter().find(|rd| cd.id == rd.id)
find_reverted(cd, reverted) == {rd \in reverted : cd.id = rd.id}

\* acc[0] of the fold
updated_status_from_current(changed, reverted) ==
    {cd \in changed : \E rd \in find_reverted(cd, reverted) : cd.status # rd.status}

\* acc[1] of the fold
updated_battery_from_current(changed, reverted) ==
    {cd \in changed : \E rd \in find_reverted(cd, reverted) : cd.battery # rd.battery}

\* acc[2] of the fold
updated_devices_from_current(changed, reverted) ==
    {cd \in changed : \E rd \in find_reverted(cd, reverted) :
                          cd.battery # rd.battery \/ cd.status # rd.status}

\* acc[3] of the fold
updated_devices_from_reverted(changed, reverted) ==
    {rd \in reverted : \E cd \in changed :
                          /\ rd \in find_reverted(cd, reverted)
                          /\ cd.battery # rd.battery \/ cd.status # rd.status}

\* added_devices keeping the connected devices only
added_connected_devices(changed, updated_from_current) ==
    {b \in changed \ updated_from_current : b.status}

\* changed_devices.difference(&updated_devices_from_current)
added_devices(changed, updated_from_current) == changed \ updated_from_current

\* reverted_devices.difference(&updated_devices_from_reverted)
remove_devices(reverted, updated_from_reverted) == reverted \ updated_from_reverted

\* the devices the low-battery message of the pass lists
LowBatteryMessages(cfg, map, updated_battery) ==
    IF cfg.notify_low_battery = 0 THEN {}
    ELSE {d \in updated_battery : /\ d.battery < cfg.notify_low_battery
                                  /\ map[d.id] # "true"}

\* low_battery_devices after the loop over updated_battery_from_current
LowBatteryAfter(cfg, map, updated_battery) ==
    IF cfg.notify_low_battery = 0 THEN map
    ELSE [k \in LowKeys |->
            IF \E d \in updated_battery : d.id = k
            THEN LET d == CHOOSE d \in updated_battery : d.id = k
                 IN  IF d.battery < cfg.notify_low_battery THEN "true"
                     ELSE IF map[k] = "none" THEN "none" ELSE "false"
            ELSE map[k]]

\* one notify(title, text, mute) call: its kind and the devices it lists
TrayNotice(kind, devices) == [kind |-> kind, devices |-> devices]

\* the notify calls of a pass that have a device to list
TrayNotices(cfg, map, changed, reverted) ==
    LET status == updated_status_from_current(changed, reverted)
        low == LowBatteryMessages(cfg, map,
                   updated_battery_from_current(changed, reverted))
        reconnection == {d \in status : d.status /\ cfg.notify_reconnection}
        disconnection == {d \in status : ~d.status /\ cfg.notify_disconnection}
        added == added_devices(changed,
                     updated_devices_from_current(changed, reverted))
        removed == remove_devices(reverted,
                       updated_devices_from_reverted(changed, reverted))
    IN  {n \in {TrayNotice("LowBattery", low),
                TrayNotice("Reconnected", reconnection),
                TrayNotice("Disconnected", disconnection),
                TrayNotice("Added", IF cfg.notify_added_devices THEN added ELSE {}),
                TrayNotice("Removed", IF cfg.notify_remove_devices THEN removed ELSE {})}
           : n.devices # {}}

\* update_tray returning at line 394: nothing was classified
SkippedPass(current) ==
    [ran |-> FALSE, prev |-> blue_info, cur |-> current,
     added |-> {}, removed |-> {}, updated_cur |-> {}, updated_rev |-> {},
     sent |-> {}, refresh |-> "none"]

\* update_tray, with current what get_bluetooth_tray_info returned
TrayUpdate(current) ==
    /\ UNCHANGED notTray
    /\ UNCHANGED tray_config
    /\ IF current = blue_info /\ ~update_menu_event
       THEN /\ pass' = SkippedPass(current)
            /\ UNCHANGED <<blue_info, low_battery_devices, update_menu_event>>
       ELSE LET changed == changed_devices(current, blue_info)
                reverted == reverted_devices(current, blue_info)
                updated_cur == updated_devices_from_current(changed, reverted)
                updated_rev == updated_devices_from_reverted(changed, reverted)
                added == added_devices(changed, updated_cur)
                removed == remove_devices(reverted, updated_rev)
            IN  /\ low_battery_devices' =
                       LowBatteryAfter(tray_config, low_battery_devices,
                           updated_battery_from_current(changed, reverted))
                /\ blue_info' = current
                /\ update_menu_event' = FALSE
                /\ pass' =
                       [ran |-> TRUE, prev |-> blue_info, cur |-> current,
                        added |-> added, removed |-> removed,
                        updated_cur |-> updated_cur, updated_rev |-> updated_rev,
                        sent |-> TrayNotices(tray_config, low_battery_devices,
                                             changed, reverted),
                        refresh |-> IF update_menu_event \/ added # {} \/ removed # {}
                                    THEN "SetTrayInfo" ELSE "SetTooltip"]

\* menu items update_interval, show_disconnected_devices,
\* truncate_device_name, battery_prefix_name: the menu is to be rebuilt
TrayMenuRefresh ==
    /\ update_menu_event' = TRUE
    /\ UNCHANGED <<tray_config, blue_info, low_battery_devices, pass>>
    /\ UNCHANGED notTray

\* menu item of a low-battery level
TrayMenuLowBattery(low_battery) ==
    /\ tray_config' = [tray_config EXCEPT !.notify_low_battery = low_battery]
    /\ update_menu_event' = TRUE
    /\ UNCHANGED <<blue_info, low_battery_devices, pass>>
    /\ UNCHANGED notTray

\* loop_systray: the devices its startup notification lists
StartupLowDevices(cfg, info) ==
    IF cfg.notify_low_battery = 0 THEN {}
    ELSE {device \in info : device.battery < cfg.notify_low_battery /\ device.status}

\* loop_systray before the first update_tray: the notify call made for the
\* startup snapshot
StartupPass(cfg, info) ==
    [NoPass EXCEPT
        !.sent = {n \in {TrayNotice("LowBattery", StartupLowDevices(cfg, info))} :
                     n.devices # {}},
        !.refresh = "startup"]

TrayInit ==
    /\ WatchIdle /\ MainIdle /\ BuildIdle /\ ToastIdle /\ EventsIdle /\ TimerIdle /\ LocksIdle /\ TestIdle
    /\ tray_config \in TrayConfigs
    /\ blue_info \in TraySnapshots
    /\ low_battery_devices = StartupLowBattery(tray_config, blue_info)
    /\ update_menu_event = FALSE
    /\ pass = StartupPass(tray_config, blue_info)

TrayNext ==
    \/ \E current \in TraySnapshots : TrayUpdate(current)
    \/ TrayMenuRefresh
    \/ \E low_battery \in {0, LowBatteryDefault} : TrayMenuLowBattery(low_battery)

SpecTray == TrayInit /\ [][TrayNext]_vars

\* the addresses of a set of records
AddressesOf(S) == {d.id : d \in S}

\* C11 as stated: the addresses a pass classified as added, removed or
\* matched-updated are the symmetric difference of the address sets of the
\* previous and the current snapshot.
C11_CoverageOfAddressSets ==
    AddressesOf(pass.added \cup pass.removed \cup pass.updated_cur \cup pass.updated_rev)
        = (AddressesOf(pass.prev) \ AddressesOf(pass.cur))
              \cup (AddressesOf(pass.cur) \ AddressesOf(pass.prev))

\* C11: the addresses a pass classified as added, removed or matched-updated
\* are the addresses of the records that are in exactly one of the previous
\* and the current snapshot.
C11_CoverageOfRecords ==
    AddressesOf(pass.added \cup pass.removed \cup pass.updated_cur \cup pass.updated_rev)
        = AddressesOf((pass.prev \ pass.cur) \cup (pass.cur \ pass.prev))

\* C11 witness: a pass that classified one device as matched-updated,
\* another as added, and a renamed one as added and removed at once.
C11_Witness ==
    /\ pass.ran
    /\ \/ pass.updated_cur # {} /\ pass.added # {} /\ ~pass.cur \in SUBSET pass.added
       \/ /\ AddressesOf(pass.added) \cap AddressesOf(pass.removed) # {}
          /\ pass.updated_cur # {}

\* the devices the LowBattery notice of a pass lists
LowBatteryListed(p) ==
    UNION {n.devices : n \in {m \in p.sent : m.kind = "LowBattery"}}

\* C30: a connected device listed by the low-battery notification of the
\* startup is not listed by the low-battery notification of the first
\* update pass that finds it below the threshold again.
C30_StartupEntrySuppressesRepeat ==
    [][(pass.refresh = "startup" /\ pass'.ran /\ tray_config.notify_low_battery # 0)
       => \A d \in LowBatteryListed(pass) :
             \A c \in pass'.cur :
                (c.id = d.id /\ c.battery < tray_config.notify_low_battery)
                => c \notin LowBatteryListed(pass')
      ]_vars

(***************************************************************************)
(* SpecToast: the passes of Spec with a toast that may fail to show.       *)
(* notify() (notify.rs) ends in .show().expect(..): a failed delivery      *)
(* panics the notification thread, which holds the lock of                 *)
(* notified_low_battery; the mutex is poisoned from then on.               *)
(***************************************************************************)
\* the pair's first notify call is the low-battery one
FirstCallIsLowBattery(cfg, old, new, st) ==
    /\ old.id = new.id
    /\ new.battery # old.battery
    /\ new.id \notin st.notified
    /\ new.battery < cfg.low_battery

\* the closure with a notify call that panics: some pairs were handled
\* before, and the first notify call of the next pair is the one that fails;
\* a recovery removed from the set before that call stays removed, the
\* insert after a failed low-battery call is not made
FailedThreadBodies(j, notified) ==
    LET pairs == j.change_old \X j.change_new
        Before(handled) ==
            NestedLoop(j.cfg, j.change_old, j.change_new, handled,
                       [notified |-> notified, out |-> EmptyBag])
        Whole(handled, q) ==
            PairBody(j.cfg, j.change_old, j.change_new, q[1], q[2], Before(handled))
        Failing(handled) ==
            {p \in pairs \ handled : Whole(handled, p).out # Before(handled).out}
    IN  UNION {{[notified |->
                    IF FirstCallIsLowBattery(j.cfg, q[1], q[2], Before(handled))
                    THEN Before(handled).notified
                    ELSE Whole(handled, q).notified,
                 out |-> Before(handled).out] : q \in Failing(handled)} :
               handled \in SUBSET pairs}

\* what a notification thread of SpecToast leaves alone
notThread == <<script, log, fifo, watchVars, buildVars, trayVars, eventVars, timerVars,
              lockVars, testVars>>

\* the thread ends by return: no notify call of it failed
ToastThreadReturns ==
    /\ ~poisoned
    /\ \E i \in 1..Len(threads) : RunThread(i)
    /\ UNCHANGED poisoned
    /\ UNCHANGED notThread

\* the thread panics in notify() with the notified set locked
ToastThreadFails ==
    /\ ~poisoned
    /\ \E i \in 1..Len(threads) :
          /\ \E r \in FailedThreadBodies(threads[i], notified_low_battery) :
                /\ notified_low_battery' = r.notified
                /\ emitted' = r.out
                /\ alerts' = AlertsAfter(threads[i], r.out, alerts)
          /\ job' = threads[i]
          /\ threads' = Remove(threads, i)
    /\ poisoned' = TRUE
    /\ step' = "thread_failed"
    /\ ret' = "none" /\ enumr' = NoEnum
    /\ UNCHANGED <<config, bluetooth_info, force_update>>
    /\ UNCHANGED notThread

\* the thread panics at notified_low_battery.lock().unwrap()
ToastThreadPoisoned ==
    /\ poisoned
    /\ \E i \in 1..Len(threads) :
          /\ job' = threads[i]
          /\ threads' = Remove(threads, i)
    /\ emitted' = EmptyBag
    /\ step' = "thread_poisoned"
    /\ ret' = "none" /\ enumr' = NoEnum
    /\ UNCHANGED <<config, bluetooth_info, force_update, notified_low_battery,
                   alerts, poisoned>>
    /\ UNCHANGED notThread

ToastUpdateTray == UpdateTray

ToastInit ==
    /\ WatchIdle /\ BuildIdle /\ TrayIdle /\ ToastIdle /\ EventsIdle /\ TimerIdle /\ LocksIdle /\ TestIdle
    /\ config = NotifyOptions(TRUE, TRUE, TRUE, TRUE)
    /\ bluetooth_info \in Snapshots
    /\ notified_low_battery = {}
    /\ force_update = FALSE
    /\ threads = <<>>
    /\ step = "init" /\ ret = "none" /\ enumr = NoEnum
    /\ job = NoJob /\ emitted = EmptyBag
    /\ alerts = [id \in Addresses |-> "none"]
    /\ script = 0 /\ log = <<>> /\ fifo = TRUE

ToastNext ==
    \/ ToastUpdateTray
    \/ ToastThreadReturns
    \/ ToastThreadFails
    \/ ToastThreadPoisoned

SpecToast == ToastInit /\ [][ToastNext]_vars

\* C21: a pass that enumerated its devices stores the new snapshot whatever
\* happened to the notifications of earlier passes, and the notification
\* thread of every pass in which no delivery fails evaluates hysteresis and
\* sends its notifications as the closure would from the notified set it
\* found.
C21_NotifyFailureNeverAborts ==
    [][/\ (step' = "UpdateTray" /\ enumr'.find_ok /\ enumr'.info_ok)
          => bluetooth_info' = enumr'.new_bt_info
       /\ step' \in {"thread", "thread_poisoned"}
          => /\ emitted' = NotifyThreadBody(job', notified_low_battery).out
             /\ notified_low_battery' =
                    NotifyThreadBody(job', notified_low_battery).notified
      ]_vars

(***************************************************************************)
(* SpecEvents: the event-driven watch of src/src/bluetooth/_watch.rs       *)
(* (WatchBluetoothDeviceInfo): the subscriptions watch() registers, the    *)
(* handlers the OS calls on its own thread, the bounded channel and the    *)
(* loop that drains it. Device A is a classic device, device B a           *)
(* low-energy one.                                                         *)
(***************************************************************************)
\* an event handler registered with the OS: its event and the transport or
\* device it was registered on
Subscription(event, on) == [event |-> event, on |-> on]

\* the tokens watch_bt_add_remove registers on the two DeviceWatchers
AddRemoveSubscriptions ==
    {Subscription(e, w) : e \in {"Added", "Removed"}, w \in {"btc", "ble"}}

\* the tokens watch_btc_devices registers for the classic devices it knows
BtcSubscriptions(btc) == {Subscription("ConnectionStatusChanged", d) : d \in btc}

\* the transport of the device a handler was registered for
TransportOf(d) == IF d = "A" THEN "btc" ELSE "ble"

\* the tokens watch_ble_devices registers for the low-energy devices it knows
BleSubscriptions(ble) ==
    {Subscription(e, d) : e \in {"ConnectionStatusChanged", "ValueChanged"},
                          d \in ble}

\* Sender::try_send: the event is queued, or dropped when the channel is full
try_send(q, event) ==
    IF Len(q) < ChannelCapacity
    THEN [queue |-> Append(q, event), push |-> "try_send"]
    ELSE [queue |-> q, push |-> "try_send_full"]

\* watch(): watch_bt_add_remove; the two WatcherGuards are forgotten
WatchAddRemove ==
    /\ wpc = "idle"
    /\ subs' = subs \cup AddRemoveSubscriptions
    /\ wpc' = "start"
    /\ UNCHANGED <<started, queue, poll, cb, known>>
    /\ UNCHANGED notEvents

\* watch(): vec_watcher.0.Start(), vec_watcher.1.Start()
WatchStart ==
    /\ wpc = "start"
    /\ started' = TRUE
    /\ wpc' = "btc"
    /\ UNCHANGED <<subs, queue, poll, cb, known>>
    /\ UNCHANGED notEvents

\* watch_btc_devices, the body of its for loop up to the guard
WatchBtcRegister ==
    /\ wpc = "btc"
    /\ subs' = subs \cup BtcSubscriptions(known.btc)
    /\ wpc' = "btc_guard"
    /\ UNCHANGED <<started, queue, poll, cb, known>>
    /\ UNCHANGED notEvents

\* watch_btc_devices: _guard is dropped at the end of each iteration; the
\* polling task is spawned and exit_tx returned
WatchBtcGuardDropped ==
    /\ wpc = "btc_guard"
    /\ subs' = subs \ BtcSubscriptions(known.btc)
    /\ poll' = TRUE
    /\ wpc' = "ble"
    /\ UNCHANGED <<started, queue, cb, known>>
    /\ UNCHANGED notEvents

\* watch_ble_devices failing before a handler is registered (no battery
\* service, no notify property): watch() returns the error
WatchBleErr ==
    /\ wpc = "ble" /\ known.ble # {}
    /\ wpc' = "err"
    /\ UNCHANGED <<subs, started, queue, poll, cb, known>>
    /\ UNCHANGED notEvents

\* watch_ble_devices, the body of its for loop up to defer!
WatchBleRegister ==
    /\ wpc = "ble"
    /\ subs' = subs \cup BleSubscriptions(known.ble)
    /\ wpc' = "ble_defer"
    /\ UNCHANGED <<started, queue, poll, cb, known>>
    /\ UNCHANGED notEvents

\* watch_ble_devices: the defer! block runs at the end of each iteration
WatchBleDeferred ==
    /\ wpc = "ble_defer"
    /\ subs' = subs \ BleSubscriptions(known.ble)
    /\ wpc' = "recv"
    /\ UNCHANGED <<started, queue, poll, cb, known>>
    /\ UNCHANGED notEvents

\* one round of `while let Some(event) = self.rx.recv().await`. Update:
\* self.update(info) sends UpdateTrayForBluetooth, or fails and watch()
\* returns the error. Add, Remove: the map is changed, the polling task told
\* to exit, the loop left, both DeviceWatchers stopped and Ok(()) returned;
\* or the send fails and watch() returns the error
WatchRecv ==
    /\ wpc = "recv" /\ queue # <<>>
    /\ queue' = Tail(queue)
    /\ LET e == Head(queue) IN
       IF e.event = "Update"
       THEN /\ \/ wpc' = "recv"
               \/ wpc' = "err"
            /\ UNCHANGED <<known, poll, started>>
       ELSE /\ known' = [known EXCEPT ![e.transport] =
                            IF e.event = "Add" THEN @ \cup {e.dev} ELSE @ \ {e.dev}]
            /\ \/ wpc' = "returned" /\ poll' = FALSE /\ started' = FALSE
               \/ wpc' = "err" /\ UNCHANGED <<poll, started>>
    /\ UNCHANGED <<subs, cb>>
    /\ UNCHANGED notEvents

\* watch() is called again after it returned
WatchAgain ==
    /\ wpc \in {"returned", "err"}
    /\ wpc' = "idle"
    /\ UNCHANGED <<subs, started, queue, poll, cb, known>>
    /\ UNCHANGED notEvents

\* handler of DeviceWatcher.Added on the classic watcher: for a device not
\* in btc_map, get_pnp_devices_info is tried up to max_retries times with
\* std::thread::sleep(2 s) in between; the future of tx.send(Add) is dropped
\* unpolled, so nothing is queued
HandleBtcAdded(d, fails) ==
    /\ started /\ Subscription("Added", "btc") \in subs
    /\ cb' = IF d \in known.btc
             THEN Handled("btc_added", FALSE, 0, "none", "none")
             ELSE Handled("btc_added", fails >= 1 /\ max_retries > 1,
                          IF fails >= max_retries THEN max_retries ELSE fails + 1,
                          IF fails >= max_retries THEN "none" ELSE "send_unpolled",
                          IF fails >= max_retries THEN "empty_map" ELSE "ok")
    /\ UNCHANGED <<wpc, subs, started, queue, poll, known>>
    /\ UNCHANGED notEvents

\* handlers of Added on the low-energy watcher and of Removed on both: no
\* retry; the future of tx.send(..) is dropped unpolled
HandleOtherAddRemove(event, on, d) ==
    /\ started /\ Subscription(event, on) \in subs
    /\ cb' = IF (event = "Added") = (d \in known[on])
             THEN Handled(event, FALSE, 0, "none", "none")
             ELSE Handled(event, FALSE, 0, "send_unpolled", "none")
    /\ UNCHANGED <<wpc, subs, started, queue, poll, known>>
    /\ UNCHANGED notEvents

\* handlers of ConnectionStatusChanged and of the battery characteristic's
\* ValueChanged: try_send(WatchEvent::Update(info))
HandleDeviceEvent(s) ==
    /\ s \in subs /\ s.event \in {"ConnectionStatusChanged", "ValueChanged"}
    /\ LET r == try_send(queue, [event |-> "Update", dev |-> s.on,
                                 transport |-> TransportOf(s.on)])
       IN  /\ queue' = r.queue
           /\ cb' = Handled(s.event, FALSE, 0, r.push, "none")
    /\ UNCHANGED <<wpc, subs, started, poll, known>>
    /\ UNCHANGED notEvents

\* the task watch_btc_devices spawns: every 10 s it reads the property store
\* and try_sends an Update for a known device whose battery differs
PollBattery(d) ==
    /\ poll /\ d \in known.btc
    /\ queue' = try_send(queue, [event |-> "Update", dev |-> d,
                                 transport |-> "btc"]).queue
    /\ UNCHANGED <<wpc, subs, started, poll, cb, known>>
    /\ UNCHANGED notEvents

\* WatchBluetoothDeviceInfo::new(infos, proxy) with the devices of infos
EventsInit ==
    /\ WatchIdle /\ MainIdle /\ BuildIdle /\ TrayIdle /\ ToastIdle /\ TimerIdle /\ LocksIdle /\ TestIdle
    /\ wpc = "idle" /\ subs = {} /\ started = FALSE
    /\ queue = <<>> /\ poll = FALSE /\ cb = NoHandler
    /\ known \in [btc : SUBSET {"A"}, ble : SUBSET {"B"}]

EventsNext ==
    \/ WatchAddRemove
    \/ WatchStart
    \/ WatchBtcRegister
    \/ WatchBtcGuardDropped
    \/ WatchBleErr
    \/ WatchBleRegister
    \/ WatchBleDeferred
    \/ WatchRecv
    \/ WatchAgain
    \/ \E fails \in 0..max_retries : HandleBtcAdded("A", fails)
    \/ HandleOtherAddRemove("Added", "ble", "B")
    \/ \E on \in {"btc", "ble"} :
          HandleOtherAddRemove("Removed", on, IF on = "btc" THEN "A" ELSE "B")
    \/ \E s \in BtcSubscriptions({"A"}) \cup BleSubscriptions({"B"}) :
          HandleDeviceEvent(s)
    \/ \E d \in {"A"} : PollBattery(d)

SpecEvents == EventsInit /\ [][EventsNext]_vars

\* C22: no OS event handler sleeps or retries, and a handler's push never
\* leaves more events in the channel than its capacity.
C22_HandlersNeverBlock ==
    /\ ~cb.slept
    /\ cb.attempts <= 1
    /\ Len(queue) <= ChannelCapacity

\* C23: while watch() is in its receive loop every handler it registered for
\* the devices it knows is registered, and once watch() has returned, with
\* Ok or with an error, none is.
C23_SubscriptionsFollowWatch ==
    /\ wpc = "recv"
       => (AddRemoveSubscriptions \cup BtcSubscriptions(known.btc)
              \cup BleSubscriptions(known.ble)) \subseteq subs
    /\ wpc \in {"returned", "err"} => subs = {}

\* C26: the retry loop of the property-store enumeration makes at most
\* max_retries attempts, sleeps between consecutive attempts only, ends with
\* the table of the first attempt that succeeded and, when every attempt
\* failed, with the error.
C26_RetryLoopReturnsError ==
    cb.pnp # "none"
    => /\ cb.attempts \in 1..max_retries
       /\ cb.slept <=> cb.attempts > 1
       /\ cb.pnp \in {"ok", "err"}

(***************************************************************************)
(* SpecTimer: the timer thread (listen.rs listen_bluetooth_devices_info,   *)
(* main.rs App::resumed)                                                   *)
(***************************************************************************)
\* waits of the timer thread in one behaviour
MaxRounds == 3
\* the largest update_interval, in seconds
MaxInterval == 3

UpdateIntervals == 0..MaxInterval

\* the two timer loops: listen.rs swaps the flag and marks the event,
\* main.rs loads the flag and sends an event without a mark
TimerLoops == {"listen", "main"}

\* top of the loop: update_interval is read, need_force_update is reset;
\* `for _ in 0..update_interval` does not run at all for 0
TimerTop(update_interval) ==
    /\ timer.pc = "top" /\ timer.rounds < MaxRounds
    /\ timer' = [timer EXCEPT !.update_interval = update_interval,
                              !.i = 0,
                              !.need_force_update = FALSE,
                              !.preempted = FALSE,
                              !.pc = IF update_interval = 0 THEN "send" ELSE "tick"]
    /\ UNCHANGED mainVars
    /\ UNCHANGED <<watchVars, buildVars, trayVars, toastVars, eventVars, lockVars, testVars>>

\* a tick that leaves the wait on the flag and does not mark the event
TickReadsUnmarked(loop, flag) ==
    [seen |-> flag, flag |-> IF loop = "listen" THEN FALSE ELSE flag,
     mark |-> FALSE]

\* the flag the tick reads, what the flag is afterwards, and the mark
TickReads(loop, flag) ==
    IF loop = "listen"
    THEN [seen |-> flag, flag |-> FALSE, mark |-> flag]
    ELSE [seen |-> flag, flag |-> flag, mark |-> FALSE]

\* one iteration of the for loop: sleep(1 s), then the flag is read; a set
\* flag ends the wait
TimerTick ==
    /\ timer.pc = "tick"
    /\ LET r == TickReads(timer.loop, force_update)
           last == timer.i + 1 >= timer.update_interval
       IN  /\ force_update' = r.flag
           /\ timer' = [timer EXCEPT
                  !.i = timer.i + 1,
                  !.need_force_update = r.mark,
                  !.preempted = r.seen,
                  !.overslept = IF force_update /\ ~r.seen /\ ~last
                                THEN timer.overslept + 1 ELSE timer.overslept,
                  !.pc = IF r.seen \/ last THEN "send" ELSE "tick"]
    /\ UNCHANGED <<config, bluetooth_info, notified_low_battery, threads, step,
                   ret, enumr, job, emitted, alerts, script, log, fifo>>
    /\ UNCHANGED <<watchVars, buildVars, trayVars, toastVars, eventVars, lockVars, testVars>>

\* proxy.send_event(UserEvent::UpdateTray(need_force_update)) in listen.rs,
\* proxy.send_event(UserEvent::UpdateTray) in main.rs
TimerSend ==
    /\ timer.pc = "send"
    /\ timer' = [timer EXCEPT
           !.event = TimerEvent(timer.loop = "listen", timer.need_force_update,
                                timer.i, timer.update_interval, timer.preempted),
           !.rounds = timer.rounds + 1,
           !.pc = IF timer.loop = "listen" THEN "top" ELSE "handle"]
    /\ UNCHANGED mainVars
    /\ UNCHANGED <<watchVars, buildVars, trayVars, toastVars, eventVars, lockVars, testVars>>

\* main.rs: the UpdateTray handler swaps the flag to false when the pass
\* found no change (416) and leaves it when it found one
TimerHandled(swaps) ==
    /\ timer.pc = "handle"
    /\ force_update' = IF swaps THEN FALSE ELSE force_update
    /\ timer' = [timer EXCEPT !.pc = "top"]
    /\ UNCHANGED <<config, bluetooth_info, notified_low_battery, threads, step,
                   ret, enumr, job, emitted, alerts, script, log, fifo>>
    /\ UNCHANGED <<watchVars, buildVars, trayVars, toastVars, eventVars, lockVars, testVars>>

\* the menu item "force_update" sets the flag, at any moment of the wait
TimerForceUpdate == ForceUpdateMenu

TimerInit ==
    /\ WatchIdle /\ MainIdle /\ BuildIdle /\ TrayIdle /\ ToastIdle /\ EventsIdle
    /\ LocksIdle /\ TestIdle
    /\ \E l \in TimerLoops : timer = [NoTimer EXCEPT !.loop = l]

TimerNext ==
    \/ \E update_interval \in UpdateIntervals : TimerTop(update_interval)
    \/ TimerTick
    \/ TimerSend
    \/ \E swaps \in BOOLEAN : TimerHandled(swaps)
    \/ TimerForceUpdate

SpecTimer == TimerInit /\ [][TimerNext]_vars

\* C27: an update event is sent after update_interval ticks of one second,
\* or earlier when a tick found the force-update flag set; no tick that
\* finds the flag set is followed by more waiting; and the event of
\* listen.rs is marked forced exactly when its wait was left on the flag.
C27_TimerEventForcedWhenPreempted ==
    /\ timer.overslept = 0
    /\ timer.pc = "send" => (timer.preempted \/ timer.i = timer.update_interval)
    /\ timer.event.sent
       => /\ timer.event.waited <= timer.event.interval
          /\ timer.event.preempted \/ timer.event.waited = timer.event.interval
          /\ timer.event.marked
             => (timer.event.forced <=> timer.event.preempted)

\* C27 witness: with update_interval = 3 the flag was set during the second
\* second of the wait, and the event went out after two ticks, marked
\* forced, with the flag cleared.
C27_Witness ==
    /\ timer.event = TimerEvent(TRUE, TRUE, 2, MaxInterval, TRUE)
    /\ timer.pc = "top"
    /\ ~force_update

\* C34: the update a force-update request triggers leaves the flag false:
\* the tick of listen.rs that finds the flag set resets it, and the
\* UpdateTray handler of main.rs, handling an event whose wait was left on
\* the flag, returns with the flag reset, whether or not the pass found the
\* snapshot changed.
C34_ForceRequestConsumedOnce ==
    [][/\ (timer.pc = "tick" /\ timer.loop = "listen" /\ timer'.i = timer.i + 1
             /\ force_update)
          => ~force_update'
       /\ (timer.pc = "handle" /\ timer'.pc = "top" /\ timer.event.preempted)
          => ~force_update'
      ]_vars

\* the part of C34 that is about listen.rs
C34_ListenTickConsumes ==
    [][(timer.pc = "tick" /\ timer.loop = "listen" /\ timer'.i = timer.i + 1
          /\ force_update)
       => ~force_update'
      ]_vars

(***************************************************************************)
(* SpecLocks: update_tray run by the timer task and by the task spawned    *)
(* for ForwardUpdate, with the event loop's handlers holding locks         *)
(***************************************************************************)
\* what the actions of SpecLocks leave alone besides the tray's state
notLocks == <<mainVars, watchVars, buildVars, toastVars, eventVars, timerVars, testVars>>

\* calls of update_tray per task in one behaviour
MaxPasses == 1

\* what get_bluetooth_tray_info may return to a pass
LockSnapshots ==
    {{}} \cup {{BluetoothInfo("A", "a", b, TRUE)} : b \in {5, 10}}

\* Mutexes the handlers of the event loop lock: tooltip (144, 153) and
\* update_menu_event (215)
UiMutexes == {"tooltip", "update_menu_event"}

\* the Mutexes update_tray holds from line 390 to its end
PassMutexes == {Mutexes[i] : i \in 1..5}

\* the guards of a task or of the event loop are dropped
Release(owner) ==
    [m \in DOMAIN mutex |-> IF mutex[m] = owner THEN "free" ELSE mutex[m]]

\* a try_lock that does not look whether the Mutex is held
try_lock_unchecked(m, owner) == TRUE

\* Mutex::try_lock: Ok exactly when nobody holds the Mutex
try_lock(m, owner) == mutex[m] = "free"

\* update_tray returning an error before it changed anything
ReturnsErr(t) ==
    /\ mutex' = Release(t)
    /\ tasks' = [tasks EXCEPT ![t].pc = "done", ![t].result = "err"]

\* get_bluetooth_tray_info(..).await: the enumeration, then config.lock()
\* three times (585-587), each released at once; a held config makes them wait
LockEnumerate(t, current) ==
    /\ tasks[t].pc = "idle" /\ tasks[t].passes < MaxPasses
    /\ mutex["config"] = "free"
    /\ tasks' = [tasks EXCEPT ![t] =
                    [pc |-> "locking", current |-> current, k |-> 1,
                     result |-> "none", sent |-> {}, passes |-> tasks[t].passes + 1]]
    /\ UNCHANGED mutex
    /\ UNCHANGED trayVars
    /\ UNCHANGED notLocks

\* one of the five try_lock()s of lines 375-389, `?` on its error
LockTry(t) ==
    /\ tasks[t].pc = "locking"
    /\ LET m == Mutexes[tasks[t].k] IN
       IF try_lock(m, t)
       THEN /\ mutex' = [mutex EXCEPT ![m] = t]
            /\ tasks' = [tasks EXCEPT
                   ![t].k = tasks[t].k + 1,
                   ![t].pc = IF tasks[t].k = 5 THEN "locked" ELSE "locking"]
       ELSE ReturnsErr(t)
    /\ UNCHANGED trayVars
    /\ UNCHANGED notLocks

\* line 393: nothing changed and no menu event, return Ok(())
LockCompare(t) ==
    /\ tasks[t].pc = "locked"
    /\ IF tasks[t].current = blue_info /\ ~update_menu_event
       THEN /\ mutex' = Release(t)
            /\ tasks' = [tasks EXCEPT ![t].pc = "done", ![t].result = "ok"]
       ELSE /\ tasks' = [tasks EXCEPT ![t].pc = "notify"]
            /\ UNCHANGED mutex
    /\ UNCHANGED trayVars
    /\ UNCHANGED notLocks

\* lines 396-557: the classification, low_battery_devices.try_lock() when a
\* battery changed (437-439), the map update and the notify calls
LockNotify(t) ==
    /\ tasks[t].pc = "notify"
    /\ LET changed == changed_devices(tasks[t].current, blue_info)
           reverted == reverted_devices(tasks[t].current, blue_info)
           updated_battery == updated_battery_from_current(changed, reverted)
       IN  IF /\ updated_battery # {} /\ tray_config.notify_low_battery # 0
              /\ ~try_lock("low_battery_devices", t)
           THEN /\ ReturnsErr(t)
                /\ UNCHANGED low_battery_devices
           ELSE /\ low_battery_devices' =
                       LowBatteryAfter(tray_config, low_battery_devices, updated_battery)
                /\ tasks' = [tasks EXCEPT
                       ![t].pc = "store",
                       ![t].sent = TrayNotices(tray_config, low_battery_devices,
                                               changed, reverted)]
                /\ UNCHANGED mutex
    /\ UNCHANGED <<tray_config, blue_info, update_menu_event, pass>>
    /\ UNCHANGED notLocks

\* lines 559-573: tooltip, snapshot and menu are stored, the guards dropped
LockStore(t) ==
    /\ tasks[t].pc = "store"
    /\ blue_info' = tasks[t].current
    /\ update_menu_event' = FALSE
    /\ mutex' = Release(t)
    /\ tasks' = [tasks EXCEPT ![t].pc = "done", ![t].result = "ok"]
    /\ UNCHANGED <<tray_config, low_battery_devices, pass>>
    /\ UNCHANGED notLocks

\* update_tray has returned; the task waits for its next trigger
LockAgain(t) ==
    /\ tasks[t].pc = "done"
    /\ tasks' = [tasks EXCEPT ![t].pc = "idle"]
    /\ UNCHANGED mutex
    /\ UNCHANGED trayVars
    /\ UNCHANGED notLocks

\* a handler of the event loop locks a Mutex
UiTake(m) ==
    /\ mutex[m] = "free"
    /\ mutex' = [mutex EXCEPT ![m] = "ui"]
    /\ UNCHANGED tasks
    /\ UNCHANGED trayVars
    /\ UNCHANGED notLocks

\* and drops the guard; the menu handler has set update_menu_event under it
UiRelease(m) ==
    /\ mutex[m] = "ui"
    /\ mutex' = [mutex EXCEPT ![m] = "free"]
    /\ update_menu_event' = IF m = "update_menu_event" THEN TRUE
                            ELSE update_menu_event
    /\ UNCHANGED tasks
    /\ UNCHANGED <<tray_config, blue_info, low_battery_devices, pass>>
    /\ UNCHANGED notLocks

LocksInit ==
    /\ WatchIdle /\ MainIdle /\ BuildIdle /\ ToastIdle /\ EventsIdle /\ TimerIdle
    /\ LocksIdle /\ TestIdle
    /\ tray_config \in {c \in TrayConfigs : /\ c.notify_low_battery = LowBatteryDefault
                                            /\ c.notify_added_devices}
    /\ blue_info \in LockSnapshots
    /\ low_battery_devices = StartupLowBattery(tray_config, blue_info)
    /\ update_menu_event = FALSE
    /\ pass = StartupPass(tray_config, blue_info)

LocksNext ==
    \/ \E t \in Tasks, current \in LockSnapshots : LockEnumerate(t, current)
    \/ \E t \in Tasks : LockTry(t)
    \/ \E t \in Tasks : LockCompare(t)
    \/ \E t \in Tasks : LockNotify(t)
    \/ \E t \in Tasks : LockStore(t)
    \/ \E t \in Tasks : LockAgain(t)
    \/ \E m \in UiMutexes : UiTake(m)
    \/ \E m \in UiMutexes : UiRelease(m)

SpecLocks == LocksInit /\ [][LocksNext]_vars

MaxCalls == 4

\* DeviceWatcherStatus
Statuses ==
    {"Created", "Started", "EnumerationCompleted", "Stopping", "Stopped", "Aborted"}

\* the statuses in which the DeviceWatcher accepts Start and Stop (the page
\* linked at watch.rs:275)
StartAllowed == {"Created", "Stopped", "Aborted"}
StopAllowed == {"Started", "EnumerationCompleted", "Aborted"}

\* a guard that lets every status through
AnyStatus == Statuses

\* the matches! of start() (290-297) and of stop() (276-283)
StartStatuses == {"Created", "Aborted", "Stopped"}
StopStatuses == {"Started", "Aborted", "EnumerationCompleted"}

notTest ==
    <<mainVars, watchVars, buildVars, trayVars, toastVars, eventVars, timerVars,
      lockVars, last_poll, advance>>

\* start() or stop() is entered: `let status = self.watcher.Status()?`
DwCall(op) ==
    /\ dw.pc = "idle" /\ ~dw.dropped /\ dw.commands < MaxCalls
    /\ dw' = [dw EXCEPT !.pc = op, !.seen = dw.status,
                        !.commands = dw.commands + 1]
    /\ UNCHANGED notTest

\* impl Drop: stop() on the way out, its error only printed
DwDrop ==
    /\ dw.pc = "idle" /\ ~dw.dropped
    /\ dw' = [dw EXCEPT !.pc = "stop", !.seen = dw.status, !.dropped = TRUE]
    /\ UNCHANGED notTest

\* the rest of start() / stop(): the command is issued when the status read
\* is one of the matches!, and Ok(()) is returned; a command the
\* DeviceWatcher does not accept in its status comes back as the error
DwIssue ==
    /\ dw.pc \in {"start", "stop"}
    /\ LET guard == IF dw.pc = "start" THEN StartStatuses ELSE StopStatuses
           allowed == IF dw.pc = "start" THEN StartAllowed ELSE StopAllowed
           issued == dw.seen \in guard
           accepted == dw.status \in allowed
       IN  dw' = [dw EXCEPT
               !.pc = "idle",
               !.status = IF issued /\ accepted
                          THEN IF dw.pc = "start" THEN "Started" ELSE "Stopping"
                          ELSE dw.status,
               !.misuse = dw.misuse \/ (issued /\ ~accepted),
               !.last = [op |-> dw.pc, seen |-> dw.seen, issued |-> issued,
                         ret |-> IF issued /\ ~accepted THEN "err" ELSE "ok"]]
    /\ UNCHANGED notTest

\* the OS: the initial enumeration is complete
OsEnumerationCompleted ==
    /\ dw.status = "Started"
    /\ dw' = [dw EXCEPT !.status = "EnumerationCompleted"]
    /\ UNCHANGED notTest

\* the OS: the watcher has stopped
OsStopped ==
    /\ dw.status = "Stopping"
    /\ dw' = [dw EXCEPT !.status = "Stopped"]
    /\ UNCHANGED notTest

\* the OS: the watcher has aborted
OsAborted ==
    /\ dw.status \in {"Started", "EnumerationCompleted"}
    /\ dw' = [dw EXCEPT !.status = "Aborted"]
    /\ UNCHANGED notTest

DwInit ==
    /\ WatchIdle /\ MainIdle /\ BuildIdle /\ TrayIdle /\ ToastIdle /\ EventsIdle
    /\ TimerIdle /\ LocksIdle
    /\ last_poll = NoPoll /\ advance = NoAdvance
    /\ dw = [NoWatcher EXCEPT !.status = "Created"]

DwNext ==
    \/ \E op \in {"start", "stop"} : DwCall(op)
    \/ DwDrop
    \/ DwIssue
    \/ OsEnumerationCompleted
    \/ OsStopped
    \/ OsAborted

SpecDeviceWatcher == DwInit /\ [][DwNext]_vars

\* C32: start() issues Start only on having read Created, Stopped or
\* Aborted and stop() issues Stop only on having read Started,
\* EnumerationCompleted or Aborted; no sequence of start, stop and drop
\* issues a command in a status that does not allow it, and every call
\* returns Ok.
C32_WatcherCommandsGuarded ==
    /\ ~dw.misuse
    /\ dw.last.ret \in {"none", "ok"}
    /\ dw.last.issued
       => dw.last.seen \in (IF dw.last.op = "start" THEN StartAllowed ELSE StopAllowed)

\* C32 witness: start, stop and stop again at once: the second stop read
\* Stopping, issued nothing and returned Ok.
C32_Witness ==
    /\ dw.commands = 3 /\ dw.pc = "idle"
    /\ dw.last = [op |-> "stop", seen |-> "Stopping", issued |-> FALSE, ret |-> "ok"]
    /\ dw.status = "Stopping"

(***************************************************************************)
(* SpecOrder: one device observed at 50 and then at any of 5 and 20, the   *)
(* notification threads of the passes running in any order                 *)
(***************************************************************************)
\* passes in one behaviour
MaxObservations == 3

\* a reading below and a reading above the threshold
OrderReadings == {5, 20}

OrderEnumeration(battery) ==
    [found |-> [ok |-> TRUE,
                info |-> {HystDevice(battery, d.status) : d \in bluetooth_info}],
     btc_ok |-> TRUE]

OrderUpdateTray ==
    /\ script < MaxObservations
    /\ \E battery \in OrderReadings :
          UpdateTrayFound(OrderEnumeration(battery), MaxRacing)
    /\ script' = script + 1
    /\ UNCHANGED <<log, fifo>>
    /\ UNCHANGED notMain

\* any of the spawned threads takes the lock of notified_low_battery next
\* (bluetooth.rs:332-336)
OrderNotifyThread == HystNotifyThread

OrderInit == HystInit

OrderNext == OrderUpdateTray \/ OrderNotifyThread

SpecOrder == OrderInit /\ [][OrderNext]_vars

\* the device is in the canonical snapshot with a battery below the threshold
ObservedLow == \E d \in bluetooth_info : d.id = "A" /\ d.battery < Threshold

\* C33: once the notification work of the passes made so far is done, the
\* notified-low-battery set holds the address exactly when the latest
\* observation of the device is below the threshold, in every order in
\* which the spawned threads ran.
C33_NotifiedFollowsLatestObservation ==
    threads = <<>> => (("A" \in notified_low_battery) <=> ObservedLow)

\* the same, for the behaviours in which the threads ran in the order of
\* their passes
C33_InPassOrder ==
    (threads = <<>> /\ fifo) => (("A" \in notified_low_battery) <=> ObservedLow)

(***************************************************************************)
(* SpecAdvance: the timer task of loop_systray and the ForwardUpdate       *)
(* handler over the Mutex of updated_in_advance                            *)
(***************************************************************************)
\* wake-ups of the timer task and ForwardUpdate events in one behaviour
MaxWakeups == 4
MaxForced == 3

notAdvance ==
    <<dw, last_poll, mainVars, watchVars, buildVars, trayVars, toastVars,
      eventVars, timerVars, lockVars>>

\* updated_in_advance.try_lock() taken as always succeeding
try_lock_advance_uncontended(holder) == TRUE

\* updated_in_advance.try_lock() of the timer task (109)
try_lock_advance(holder) == holder = "none"

\* TrayEvent::ForwardUpdate: updated_in_advance.lock() (186)
ForwardUpdateLock ==
    /\ advance.holder = "none"
    /\ advance.forced < MaxForced
    /\ advance' = [advance EXCEPT !.holder = "forward", !.forced = advance.forced + 1]
    /\ UNCHANGED notAdvance

\* the block under the guard: the flag is set, update_tray is spawned, and
\* the guard is dropped (187-199)
ForwardUpdateSet ==
    /\ advance.holder = "forward"
    /\ advance' = [advance EXCEPT !.flag = TRUE, !.holder = "none"]
    /\ UNCHANGED notAdvance

\* one round of the timer task after its sleep (105-127): the lock not
\* obtained: continue; the flag found set: reset, continue; else update_tray.
\* The sleep outlasts the block under the guard of the handler: no two
\* wake-ups in a row meet the same holder.
TimerWake ==
    /\ advance.wakeups < MaxWakeups
    /\ ~(advance.last = "skipped_lock" /\ advance.holder = "forward")
    /\ LET locked == try_lock_advance(advance.holder)
           seen == locked /\ advance.flag
       IN  advance' = [advance EXCEPT
               !.wakeups = advance.wakeups + 1,
               !.flag = IF locked THEN FALSE ELSE advance.flag,
               !.last = IF ~locked THEN "skipped_lock"
                        ELSE IF seen THEN "skipped_flag" ELSE "updated",
               !.skipped = IF ~locked \/ seen THEN advance.skipped + 1
                           ELSE advance.skipped]
    /\ UNCHANGED notAdvance

AdvanceInit ==
    /\ WatchIdle /\ MainIdle /\ BuildIdle /\ TrayIdle /\ ToastIdle /\ EventsIdle
    /\ TimerIdle /\ LocksIdle /\ TestIdle

AdvanceNext == ForwardUpdateLock \/ ForwardUpdateSet \/ TimerWake

SpecAdvance == AdvanceInit /\ [][AdvanceNext]_vars

\* C38: the timer task skips no more wake-ups than there were forced
\* updates: each ForwardUpdate costs at most one wake-up, the one that
\* finds the flag set, and several of them before one wake-up cost one.
C38_ForcedUpdateSkipsOneWakeup == advance.skipped <= advance.forced

\* the part of C38 that is about the flag alone: a wake-up that obtains the
\* lock leaves the flag reset, updates when it found the flag reset and
\* does not when it found it set
C38_WakeupResetsFlag ==
    [][(advance'.wakeups # advance.wakeups /\ advance.holder = "none")
       => /\ ~advance'.flag
          /\ advance'.last = IF advance.flag THEN "skipped_flag" ELSE "updated"
      ]_vars

====
